---- MODULE Spec2Model ----
(***************************************************************************)
(* Model of cloudtrust/fpe: the FF1 and FF3 format-preserving encryption   *)
(* modes (fix branch: length-dependent round count, 6-byte FF3 tweak) and  *)
(* the numeral/byte helpers they are built on.                             *)
(*                                                                         *)
(* Representation.  A Go []byte is a sequence over 0..255, a []uint16 a    *)
(* sequence over 0..65535.  A *big.Int is a record [neg, mag]: mag is the  *)
(* magnitude as big.Int.Bytes() gives it (big-endian, no leading zero      *)
(* byte, <<>> for 0), neg the sign.  All arithmetic on magnitudes is       *)
(* schoolbook arithmetic on the byte strings: the modelled values are      *)
(* unbounded as in math/big.                                               *)
(***************************************************************************)
EXTENDS Integers, Sequences, FiniteSets, TLC

\* ---------------------------------------------------------------- constants
\* part_001:19-31
minTweakLenFF1 == 0
maxTweakLenFF1 == 65536
minRadixFF1 == 2
maxRadixFF1 == 65536
minInputLenFF1 == 2
blockSizeFF1 == 16
\* ff3.go:19-29
tweakLenFF3 == 6
minRadixFF3 == 2
maxRadixFF3 == 65536
minInputLenFF3 == 2
blockSizeFF3 == 16

Byte == 0..255

Min(a, b) == IF a < b THEN a ELSE b

\* make([]byte, n): n zero bytes.
Zeros(n) == [i \in 1..n |-> 0]

\* copy that stops one element early
CopyStopsEarly(dst, src) ==
  [i \in 1..Len(dst) |-> IF i < Len(src) THEN src[i] ELSE dst[i]]

\* Go's copy(dst, src): the first min(len) elements of dst are overwritten.
Copy(dst, src) ==
  [i \in 1..Len(dst) |-> IF i <= Len(src) THEN src[i] ELSE dst[i]]

\* ------------------------------------------------------------ byte-wise xor
RECURSIVE XorBits(_, _, _)
XorBits(a, b, k) ==
  IF k = 0 THEN 0
  ELSE ((a + b) % 2) + 2 * XorBits(a \div 2, b \div 2, k - 1)

Xor4 == [a \in 0..15 |-> [b \in 0..15 |-> XorBits(a, b, 4)]]

\* a ^ b on two bytes
XorByte(a, b) == 16 * Xor4[a \div 16][b \div 16] + Xor4[a % 16][b % 16]

\* xorBytes(dst, a, b): dst[i] = a[i] ^ b[i] for i < min(len(a), len(b)).
xorBytes(dst, a, b) ==
  [i \in 1..Len(dst) |->
     IF i <= Min(Len(a), Len(b)) THEN XorByte(a[i], b[i]) ELSE dst[i]]

\* ------------------------------------------------- math/big on byte strings
\* A magnitude is the byte string of big.Int.Bytes: big-endian, no leading
\* zero byte, empty for zero.  The arithmetic below works on the halves of a
\* byte string, the carry passing from the low half to the high one.
Strip(b) ==
  LET nz == {i \in 1..Len(b) : b[i] # 0}
  IN  IF nz = {} THEN <<>>
      ELSE SubSeq(b, CHOOSE i \in nz : \A j \in nz : i <= j, Len(b))

\* the magnitude of a machine integer k >= 0
RECURSIVE SmallMag(_)
SmallMag(k) == IF k = 0 THEN <<>> ELSE Append(SmallMag(k \div 256), k % 256)

\* b zero-extended on the left to n bytes
Pad(b, n) == Zeros(n - Len(b)) \o b

\* one byte and the carry out of it
ByteAndCarry(t) == <<(<<t % 256>>), t \div 256>>

\* the bytes of a high and a low half side by side, the carry that of the
\* high half
GlueCarry(hi, lo) == <<hi[1] \o lo[1], hi[2]>>

\* a product or sum with its carry: the magnitude
WithCarry(w) == Strip(SmallMag(w[2]) \o w[1])

\* the low Len(b) bytes of b * r + carry, and the carry out of them, for a
\* byte string b # <<>> and a machine integer 0 <= r <= 65536: the low half
\* first, its carry into the high half
RECURSIVE MagMulAddFixed(_, _, _)
MagMulAddFixed(b, r, carry) ==
  IF Len(b) = 1 THEN ByteAndCarry(b[1] * r + carry)
  ELSE CHOOSE w \in
         {GlueCarry(MagMulAddFixed(SubSeq(b, 1, Len(b) \div 2), r, lo[2]), lo) :
            lo \in {MagMulAddFixed(SubSeq(b, Len(b) \div 2 + 1, Len(b)), r, carry)}} : TRUE

\* mag * r + carry
MagMulAdd(b, r, carry) ==
  IF b = <<>> THEN SmallMag(carry) ELSE WithCarry(MagMulAddFixed(b, r, carry))

\* one quotient byte and the remainder
ByteAndRem(cur, r) == <<(<<cur \div r>>), cur % r>>

\* the quotient bytes of a high and a low half side by side, the remainder
\* that of the low half
GlueRem(hi, lo) == <<hi[1] \o lo[1], lo[2]>>

\* long division of the byte string b # <<>> by a machine integer
\* 1 <= r <= 65536, the remainder rem < r coming in from the left: the
\* Len(b) quotient bytes and the remainder; the high half first, its
\* remainder into the low half
RECURSIVE MagDivModFixed(_, _, _)
MagDivModFixed(b, r, rem) ==
  IF Len(b) = 1 THEN ByteAndRem(rem * 256 + b[1], r)
  ELSE CHOOSE w \in
         {GlueRem(hi, MagDivModFixed(SubSeq(b, Len(b) \div 2 + 1, Len(b)), r, hi[2])) :
            hi \in {MagDivModFixed(SubSeq(b, 1, Len(b) \div 2), r, rem)}} : TRUE

StripQuotient(w) == <<Strip(w[1]), w[2]>>

\* <<quotient, remainder>> of mag by r
MagDivMod(b, r) ==
  IF b = <<>> THEN <<(<<>>), 0>> ELSE StripQuotient(MagDivModFixed(b, r, 0))

\* -1, 0, 1 as a < b, a = b, a > b (stripped magnitudes)
MagCmp(a, b) ==
  IF Len(a) < Len(b) THEN -1
  ELSE IF Len(a) > Len(b) THEN 1
  ELSE LET d == {i \in 1..Len(a) : a[i] # b[i]}
       IN  IF d = {} THEN 0
           ELSE LET i == CHOOSE i \in d : \A j \in d : i <= j
                IN  IF a[i] < b[i] THEN -1 ELSE 1

\* radix^m as a magnitude: big.Int.Exp(radix, m, nil)
RECURSIVE MagExp(_, _)
MagExp(radix, m) ==
  IF m = 0 THEN <<1>>
  ELSE IF m >= 4 /\ radix <= 16
  THEN MagMulAdd(MagExp(radix, m - 4), radix * radix * radix * radix, 0)
  ELSE MagMulAdd(MagExp(radix, m - 1), radix, 0)

\* the low m base-radix digits of a magnitude, most significant first
\* One pass of the loop that writes them: st is <<x, out>>, qr the quotient
\* and remainder of x by radix; the remainder goes in front of the numerals
\* written so far and x becomes the quotient.
DigitStep(st, qr) == <<qr[1], <<qr[2]>> \o st[2]>>

\* k passes of the loop from st, the first half of them before the second
RECURSIVE DigitsFrom(_, _, _)
DigitsFrom(st, radix, k) ==
  IF k = 0 THEN st
  ELSE IF k = 1 THEN DigitStep(st, MagDivMod(st[1], radix))
  ELSE CHOOSE out \in {DigitsFrom(half, radix, k - k \div 2) :
                         half \in {DigitsFrom(st, radix, k \div 2)}} : TRUE

LowDigits(b, radix, m) == DigitsFrom(<<b, <<>>>>, radix, m)[2]

\* the magnitude divided m times by radix
DivTimes(b, radix, m) == DigitsFrom(<<b, <<>>>>, radix, m)[1]

\* a + b + carry on byte strings of one length: the sum's low bytes and the
\* carry out of them
RECURSIVE MagAddFixed(_, _, _)
MagAddFixed(a, b, carry) ==
  IF Len(a) = 1 THEN ByteAndCarry(a[1] + b[1] + carry)
  ELSE CHOOSE w \in
         {GlueCarry(MagAddFixed(SubSeq(a, 1, Len(a) \div 2),
                                SubSeq(b, 1, Len(a) \div 2), lo[2]), lo) :
            lo \in {MagAddFixed(SubSeq(a, Len(a) \div 2 + 1, Len(a)),
                                SubSeq(b, Len(a) \div 2 + 1, Len(a)), carry)}} : TRUE

\* a + b on magnitudes
MagAdd(a, b) ==
  IF a = <<>> THEN b
  ELSE IF b = <<>> THEN a
  ELSE IF Len(a) >= Len(b) THEN WithCarry(MagAddFixed(a, Pad(b, Len(a)), 0))
  ELSE WithCarry(MagAddFixed(Pad(a, Len(b)), b, 0))

\* one byte of a difference and the borrow out of it
ByteAndBorrow(t) == IF t < 0 THEN <<(<<t + 256>>), 1>> ELSE <<(<<t>>), 0>>

\* a - b - borrow on byte strings of one length: the difference's low bytes
\* and the borrow out of them
RECURSIVE MagSubFixed(_, _, _)
MagSubFixed(a, b, borrow) ==
  IF Len(a) = 1 THEN ByteAndBorrow(a[1] - b[1] - borrow)
  ELSE CHOOSE w \in
         {GlueCarry(MagSubFixed(SubSeq(a, 1, Len(a) \div 2),
                                SubSeq(b, 1, Len(a) \div 2), lo[2]), lo) :
            lo \in {MagSubFixed(SubSeq(a, Len(a) \div 2 + 1, Len(a)),
                                SubSeq(b, Len(a) \div 2 + 1, Len(a)), borrow)}} : TRUE

\* a - b on magnitudes, for a >= b
MagSub(a, b) ==
  IF a = <<>> THEN <<>>
  ELSE Strip(MagSubFixed(a, Pad(b, Len(a)), 0)[1])

\* number of bits of a stripped magnitude (0 for zero)
RECURSIVE BitLenSmall(_)
BitLenSmall(k) == IF k = 0 THEN 0 ELSE 1 + BitLenSmall(k \div 2)

MagBitLen(b) == IF b = <<>> THEN 0 ELSE 8 * (Len(b) - 1) + BitLenSmall(b[1])

BigInt(neg, mag) == [neg |-> neg /\ mag # <<>>, mag |-> mag]
BigZero == BigInt(FALSE, <<>>)
BigOfInt(k) == IF k < 0 THEN BigInt(TRUE, SmallMag(-k)) ELSE BigInt(FALSE, SmallMag(k))

\* x.Cmp(y)
BigCmp(x, y) ==
  IF x.neg /\ ~y.neg THEN -1
  ELSE IF ~x.neg /\ y.neg THEN 1
  ELSE IF x.neg THEN MagCmp(y.mag, x.mag)
  ELSE MagCmp(x.mag, y.mag)

\* x.Add(x, y)
BigAdd(x, y) ==
  IF x.neg = y.neg THEN BigInt(x.neg, MagAdd(x.mag, y.mag))
  ELSE IF MagCmp(x.mag, y.mag) >= 0 THEN BigInt(x.neg, MagSub(x.mag, y.mag))
  ELSE BigInt(y.neg, MagSub(y.mag, x.mag))

\* x.Sub(x, y)
BigSub(x, y) == BigAdd(x, BigInt(~y.neg, y.mag))

\* ---------------------------------------------------------------- common.go
\* numRadix: Horner's rule, out = out * radix + x[i], most significant first.
\* The passes for x[lo+1..hi] applied to out, the first half of them before
\* the second.
RECURSIVE numRadixFrom(_, _, _, _, _)
numRadixFrom(x, radix, lo, hi, out) ==
  IF hi <= lo THEN out
  ELSE IF hi = lo + 1 THEN MagMulAdd(out, radix, x[hi])
  ELSE CHOOSE o \in {numRadixFrom(x, radix, (lo + hi) \div 2, hi, half) :
                       half \in {numRadixFrom(x, radix, lo, (lo + hi) \div 2, out)}} : TRUE

numRadixMag(x, radix, l) == numRadixFrom(x, radix, 0, l, <<>>)

numRadix(x, radix) == BigInt(FALSE, numRadixMag(x, radix, Len(x)))

\* c.Mod(c, radix^m): the Euclidean remainder, always in [0, radix^m).  The
\* remainder of |c| is the number its low m base-radix digits spell.
ModOfRem(neg, r, radix, m) ==
  IF ~neg \/ r = <<>> THEN BigInt(FALSE, r)
  ELSE BigInt(FALSE, MagSub(MagExp(radix, m), r))

BigModExp(c, radix, m) ==
  ModOfRem(c.neg, numRadixMag(LowDigits(c.mag, radix, m), radix, m), radix, m)

\* num: big.Int.SetBytes
num(x) == BigInt(FALSE, Strip(x))

NoPanic == ""
Ok(v) == [panic |-> NoPanic, val |-> v]
Panic(msg) == [panic |-> msg, val |-> <<>>]

\* the numerals in the order the loop finds them, least significant first
strMRadixLeastFirst(radix, m, x) ==
  Ok([i \in 1..m |-> LowDigits(x.mag, radix, m)[m + 1 - i]])

\* strMRadix: x as m numerals in base radix, most significant first; panics
\* unless 0 <= x < radix^m.  The loop divides the caller's x in place, so
\* strMRadixLeaves is what x holds when the call returns.
strMRadix(radix, m, x) ==
  IF BigCmp(x, BigZero) = -1 \/ BigCmp(x, BigInt(FALSE, MagExp(radix, m))) # -1
  THEN Panic("strMRadix: x must be in [0..radix^m[.")
  ELSE Ok(LowDigits(x.mag, radix, m))

strMRadixLeaves(radix, m, x) ==
  IF strMRadix(radix, m, x).panic # NoPanic THEN x
  ELSE BigInt(FALSE, DivTimes(x.mag, radix, m))

\* rev / RevB
rev(x) == [i \in 1..Len(x) |-> x[Len(x) - i + 1]]
RevB(x) == [i \in 1..Len(x) |-> x[Len(x) - i + 1]]

\* the range check of getAsBBytes with 256^b let through
getAsBBytesAcceptsPower(x, b) ==
  IF BigCmp(x, BigZero) = -1 \/ BigCmp(x, BigInt(FALSE, MagExp(256, b))) = 1
  THEN Panic("getAsBBytes: x must be in [0..256^b[.")
  ELSE Ok([i \in 1..b |-> IF i <= b - Len(x.mag) THEN 0
                          ELSE x.mag[i - (b - Len(x.mag))]])

\* getAsBBytes: x as b bytes, big-endian, zero-padded on the left; panics
\* unless 0 <= x < 256^b.
getAsBBytes(x, b) ==
  IF BigCmp(x, BigZero) = -1 \/ BigCmp(x, BigInt(FALSE, MagExp(256, b))) # -1
  THEN Panic("getAsBBytes: x must be in [0..256^b[.")
  ELSE LET l == Len(x.mag)
       IN  Ok([i \in 1..b |-> IF i <= b - l THEN 0 ELSE x.mag[i - (b - l)]])

isNumeralStringValid(x, radix) == \A i \in 1..Len(x) : x[i] < radix

\* the two bytes of a numeral stored low byte first
NumeralStringToBytesLittleEndian(numeralString) ==
  [j \in 1..(2 * Len(numeralString)) |->
     IF j % 2 = 1 THEN numeralString[(j + 1) \div 2] % 256
     ELSE numeralString[j \div 2] \div 256]

\* NumeralStringToBytes: binary.BigEndian.PutUint16 per numeral.
NumeralStringToBytes(numeralString) ==
  [j \in 1..(2 * Len(numeralString)) |->
     IF j % 2 = 1 THEN numeralString[(j + 1) \div 2] \div 256
     ELSE numeralString[j \div 2] % 256]

\* the size rounded up, a trailing byte taken as a numeral of its own
BytesToNumeralStringCeil(bytes) ==
  [i \in 1..((Len(bytes) + 1) \div 2) |->
     IF 2 * i <= Len(bytes) THEN bytes[2 * i - 1] * 256 + bytes[2 * i]
     ELSE bytes[2 * i - 1]]

\* BytesToNumeralString: size = ceil(float64(len / 2)) with len / 2 an integer
\* division, binary.BigEndian.Uint16 per pair.
BytesToNumeralString(bytes) ==
  [i \in 1..(Len(bytes) \div 2) |-> bytes[2 * i - 1] * 256 + bytes[2 * i]]

\* dup: a fresh copy of a byte slice, with the same bytes and length.
dup(p) == [i \in 1..Len(p) |-> p[i]]

\* the copy is a new array: it shares no memory with dup's argument
dupFresh == TRUE

\* ------------------------------------------------- the caller's block cipher
\* The Block handed to the constructors is the caller's.  Nothing in the modes
\* relies on what it computes, so it is modelled as a small family of
\* 16-byte functions: a byte rotation with offsets (a permutation) and a
\* mixing function that is not injective.  mockBlock is the test double of
\* the repository: block size 10, Encrypt leaves dst as it is.
Blocks == {"rot", "mix", "mockBlock"}

BlockSize(k) == IF k = "mockBlock" THEN 10 ELSE 16

RECURSIVE SumBytes(_, _, _)
SumBytes(x, lo, hi) ==
  IF lo = hi THEN x[lo]
  ELSE SumBytes(x, lo, (lo + hi) \div 2) + SumBytes(x, (lo + hi) \div 2 + 1, hi)

\* Block.Encrypt(dst, src) with dst = src a 16-byte block; the value is dst.
Encrypt(k, x) ==
  IF k = "rot" THEN [i \in 1..16 |-> (x[(i % 16) + 1] + 7 * i + 1) % 256]
  ELSE IF k = "mix"
  THEN LET s == SumBytes(x, 1, 16)
       IN  [i \in 1..16 |-> (s * (2 * i + 1) + x[i] * x[17 - i] + 31 * i) % 256]
  ELSE x

\* The CBC helper (cipher.NewCBCEncrypter over the same Block): CryptBlocks
\* chains from the helper's iv and leaves iv at the last ciphertext block.
\* The value is the ciphertext; src must be whole blocks.
RECURSIVE cbcCryptFrom(_, _, _, _)
cbcCryptFrom(k, iv, src, j) ==
  IF 16 * j >= Len(src) THEN <<>>
  ELSE CHOOSE c \in
         {blk \o cbcCryptFrom(k, blk, src, j + 1) :
            blk \in {Encrypt(k, xorBytes(iv, SubSeq(src, 16 * j + 1, 16 * j + 16), iv))}} : TRUE

\* the helper after it produced the ciphertext c
cbcAfter(cbcMode, c) ==
  [panic |-> NoPanic, val |-> c,
   cbcMode |-> IF c = <<>> THEN cbcMode
               ELSE [cbcMode EXCEPT !.iv = SubSeq(c, Len(c) - 15, Len(c))]]

\* cbcMode = [block, iv, hasSetIV]; the value is [panic, val, cbcMode].
cbcCryptBlocks(cbcMode, src) ==
  IF Len(src) % 16 # 0
  THEN [panic |-> "crypto/cipher: input not full blocks", val |-> <<>>,
        cbcMode |-> cbcMode]
  ELSE cbcAfter(cbcMode, cbcCryptFrom(cbcMode.block, cbcMode.iv, src, 0))

cbcSetIV(cbcMode, iv) == [cbcMode EXCEPT !.iv = iv]

\* ----------------------------------------------------------------- ff1.go
\* ceil(v * log2(radix)): the least k with 2^k >= radix^v.
CeilLog2Exp(radix, v) == MagBitLen(MagSub(MagExp(radix, v), <<1>>))

\* the byte count rounded down
getFF1BFloor(v, radix) == CeilLog2Exp(radix, v) \div 8

\* getFF1B: b = ceil(ceil(v * log2(radix)) / 8)
getFF1B(v, radix) == (CeilLog2Exp(radix, v) + 7) \div 8

\* getFF1D: d = 4 * ceil(beta / 4) + 4
getFF1D(beta) == 4 * ((beta + 3) \div 4) + 4

\* the header with the radix in two bytes
getFF1PRadix16(radix, u, n, t) ==
  << 1, 2, 1,
     0, (radix \div 256) % 256, radix % 256,
     10,
     (u % 256) % 256,
     (n \div 16777216) % 256, (n \div 65536) % 256, (n \div 256) % 256, n % 256,
     (t \div 16777216) % 256, (t \div 65536) % 256, (t \div 256) % 256, t % 256 >>

\* getFF1P: [1]1 || [2]1 || [1]1 || [radix]3 || [10]1 || [u mod 256]1 || [n]4 || [t]4
getFF1P(radix, u, n, t) ==
  << 1, 2, 1,
     (radix \div 65536) % 256, (radix \div 256) % 256, radix % 256,
     10,
     (u % 256) % 256,
     (n \div 16777216) % 256, (n \div 65536) % 256, (n \div 256) % 256, n % 256,
     (t \div 16777216) % 256, (t \div 65536) % 256, (t \div 256) % 256, t % 256 >>

\* getFF1Q: tweak || [0]z || [i]1 || [numRadix(x, radix)]b, z = (-t-b-1) mod 16
\* mod = (-1 * int64(t+b+1)) % 16 keeps the sign of its left operand;
\* z = (mod + 16) % 16
\* the padding counted from 1 to 16
getFF1QZerosUpTo16(t, b) == blockSizeFF1 - ((t + b + 1) % blockSizeFF1)

getFF1QZeros(t, b) == ((-((t + b + 1) % blockSizeFF1)) + blockSizeFF1) % blockSizeFF1

\* q = make([]byte, t+z+1+b) with the tweak, the round byte and the b bytes
\* nb = getAsBBytes(...) copied into it
getFF1QFill(tweak, t, z, b, i, nb) ==
  IF nb.panic # NoPanic THEN nb
  ELSE Ok([j \in 1..(t + z + 1 + b) |->
             IF j <= t THEN tweak[j]
             ELSE IF j <= t + z THEN 0
             ELSE IF j = t + z + 1 THEN i % 256
             ELSE nb.val[j - (t + z + 1)]])

getFF1Q(tweak, radix, b, i, x) ==
  getFF1QFill(tweak, Len(tweak), getFF1QZeros(Len(tweak), b), b, i,
              getAsBBytes(numRadix(x, radix), b))

\* prf: SetIV(0^16), CryptBlocks, the last block of the ciphertext.  The
\* value is [panic, val, cbcMode], cbcMode the helper as the call leaves it.
prfLastBlock(c, l) ==
  IF c.panic # NoPanic THEN c
  ELSE [c EXCEPT !.val = SubSeq(c.val, l - blockSizeFF1 + 1, l)]

\* prf without the SetIV: the chain starts from what the helper holds
prfKeepsIV(cbcMode, x) ==
  prfLastBlock(cbcCryptBlocks(cbcMode, x), Len(x))

prf(cbcMode, x) ==
  prfLastBlock(cbcCryptBlocks(cbcSetIV(cbcMode, Zeros(blockSizeFF1)), x), Len(x))

\* getFF1S: the first d bytes of r || E(r xor [1]) || E(r xor [2]) || ...,
\* the counter written little-endian into bytes 0..3 of a zero block.
\* the counter written most significant byte first
getFF1SCounterBigEndian(i) ==
  [j \in 1..blockSizeFF1 |->
     IF j = 1 THEN (i \div 16777216) % 256
     ELSE IF j = 2 THEN (i \div 65536) % 256
     ELSE IF j = 3 THEN (i \div 256) % 256
     ELSE IF j = 4 THEN i % 256
     ELSE 0]

getFF1SCounter(i) ==
  [j \in 1..blockSizeFF1 |->
     IF j = 1 THEN i % 256
     ELSE IF j = 2 THEN (i \div 256) % 256
     ELSE IF j = 3 THEN (i \div 65536) % 256
     ELSE IF j = 4 THEN (i \div 16777216) % 256
     ELSE 0]

\* nbrBlocks = ceil(d / 16)
getFF1SNbrBlocks(d) == (d + blockSizeFF1 - 1) \div blockSizeFF1

\* the blocks the loop hands to aesBlock.Encrypt, in its order: r xor [i]
\* for i = 1 .. nbrBlocks - 1
getFF1SInputs(r, nbrBlocks) ==
  [i \in 1..(nbrBlocks - 1) |-> xorBytes(getFF1SCounter(i), getFF1SCounter(i), r)]

RECURSIVE getFF1SBlocks(_, _, _)
getFF1SBlocks(k, ins, i) ==
  IF i > Len(ins) THEN <<>>
  ELSE Encrypt(k, ins[i]) \o getFF1SBlocks(k, ins, i + 1)

\* s = make([]byte, 16 * nbrBlocks): copy(s, r) fills block 0 and the loop
\* block i with enc, for i = 1 .. nbrBlocks - 1; return s[:d]
getFF1S(k, r, d) ==
  SubSeq(Copy(Zeros(blockSizeFF1), r)
           \o getFF1SBlocks(k, getFF1SInputs(r, getFF1SNbrBlocks(d)), 1),
         1, d)

\* getFF1CEnc: c = (numRadix(x, radix) + y) mod radix^m
getFF1CEnc(x, y, radix, m) == BigModExp(BigAdd(numRadix(x, radix), y), radix, m)

\* the difference reduced with Rem, which keeps the sign of a negative c
BigRemExp(c, radix, m) ==
  BigInt(c.neg, numRadixMag(LowDigits(c.mag, radix, m), radix, m))

getFF1CDecRem(x, y, radix, m) == BigRemExp(BigSub(numRadix(x, radix), y), radix, m)

\* getFF1CDec: c = (numRadix(x, radix) - y) mod radix^m
getFF1CDec(x, y, radix, m) == BigModExp(BigSub(numRadix(x, radix), y), radix, m)

\* the schedule with its first limit one numeral late
getFF1NbrRoundsFrom33(l) ==
  IF l > 32 THEN 12
  ELSE IF l >= 20 THEN 18
  ELSE IF l >= 14 THEN 24
  ELSE IF l >= 10 THEN 30
  ELSE 36

getFF1NbrRounds(l) ==
  IF l >= 32 THEN 12
  ELSE IF l >= 20 THEN 18
  ELSE IF l >= 14 THEN 24
  ELSE IF l >= 10 THEN 30
  ELSE 36

\* radix^n, or the first partial power that is 100 or more: which of both
\* is all the comparison with 100 needs of math.Pow
RECURSIVE PowSat(_, _, _)
PowSat(radix, n, acc) ==
  IF n = 0 \/ acc >= 100 THEN acc ELSE PowSat(radix, n - 1, radix * acc)

\* the comparison with 100 that also rejects radix^n = 100
PowAtMost100(radix, n) == PowSat(radix, n, 1) <= 100

\* math.Pow(float64(radix), float64(n)) < 100
PowLess100(radix, n) == PowSat(radix, n, 1) < 100

\* A slice of the numeral string: a[off : off+len] of the backing array.
Slice(off, len) == [off |-> off, len |-> len]
View(ns, w) == SubSeq(ns, w.off + 1, w.off + w.len)

\* copy(w, s) for a slice w of the backing array ns
CopyInto(ns, w, s) ==
  SubSeq(ns, 1, w.off) \o SubSeq(s, 1, Min(w.len, Len(s)))
    \o SubSeq(ns, w.off + Min(w.len, Len(s)) + 1, Len(ns))

\* The passes of the loops of ff1Encrypter.CryptBlocks (enc) and of
\* ff1Decrypter.CryptBlocks.  e holds what the loop does not change; st is
\* [panic, val, cbcMode, a, b, log]: val the backing array of numeralString,
\* a and b the two slices of it, cbcMode the helper as the passes so far
\* leave it, log what each pass so far computed.  A pass after a panic does
\* nothing.
roundM(e, i) == IF i % 2 = 0 THEN e.u ELSE e.v

\* copy(a, strMRadix(radix, m, c)); a, b = b, a  (decryption: copy(b, ...))
ff1RoundCopy(e, enc, i, st, q, r, y, c, str) ==
  IF str.panic # NoPanic
  THEN [st EXCEPT !.panic = str.panic, !.cbcMode = r.cbcMode]
  ELSE [panic |-> NoPanic,
        val |-> CopyInto(st.val, IF enc THEN st.a ELSE st.b, str.val),
        cbcMode |-> r.cbcMode, a |-> st.b, b |-> st.a,
        log |-> Append(st.log,
                  [i |-> i, m |-> roundM(e, i), a |-> st.a, b |-> st.b,
                   wrote |-> IF enc THEN st.a ELSE st.b,
                   iv |-> st.cbcMode.iv, p |-> e.p, q |-> q.val, r |-> r.val,
                   y |-> y, c |-> c, str |-> str.val,
                   val |-> CopyInto(st.val, IF enc THEN st.a ELSE st.b, str.val)])]

ff1RoundStr(e, enc, i, st, q, r, y, c) ==
  ff1RoundCopy(e, enc, i, st, q, r, y, c, strMRadix(e.radix, roundM(e, i), c))

\* c = getFF1CEnc(a, y, radix, m)  (decryption: getFF1CDec(b, y, radix, m))
ff1RoundC(e, enc, i, st, q, r, y) ==
  ff1RoundStr(e, enc, i, st, q, r, y,
              IF enc THEN getFF1CEnc(View(st.val, st.a), y, e.radix, roundM(e, i))
              ELSE getFF1CDec(View(st.val, st.b), y, e.radix, roundM(e, i)))

\* s = getFF1S(aesBlock, r, d); y = num(s)
ff1RoundS(e, enc, i, st, q, r) ==
  IF r.panic # NoPanic
  THEN [st EXCEPT !.panic = r.panic, !.cbcMode = r.cbcMode]
  ELSE ff1RoundC(e, enc, i, st, q, r, num(getFF1S(e.aesBlock, r.val, e.d)))

\* r = prf(cbcMode, append(p, q...))
ff1RoundPrf(e, enc, i, st, q) ==
  IF q.panic # NoPanic THEN [st EXCEPT !.panic = q.panic]
  ELSE ff1RoundS(e, enc, i, st, q, prf(st.cbcMode, e.p \o q.val))

\* q = getFF1Q(tweak, radix, beta, i, b)  (decryption: ..., a)
ff1Round(e, enc, i, st) ==
  IF st.panic # NoPanic THEN st
  ELSE ff1RoundPrf(e, enc, i, st,
                   getFF1Q(e.tweak, e.radix, e.beta, i,
                           View(st.val, IF enc THEN st.b ELSE st.a)))

\* for i := 0; i < roundsFF1; i++: the passes lo, lo + 1, ..., hi - 1 in this
\* order, the first half of them applied before the second.
RECURSIVE ff1EncRounds(_, _, _, _)
ff1EncRounds(e, lo, hi, st) ==
  IF hi <= lo THEN st
  ELSE IF hi = lo + 1 THEN ff1Round(e, TRUE, lo, st)
  ELSE CHOOSE out \in {ff1EncRounds(e, (lo + hi) \div 2, hi, half) :
                         half \in {ff1EncRounds(e, lo, (lo + hi) \div 2, st)}} : TRUE

\* for i := roundsFF1-1; i >= 0; i--: the passes hi - 1, ..., lo + 1, lo in
\* this order.
RECURSIVE ff1DecRounds(_, _, _, _)
ff1DecRounds(e, lo, hi, st) ==
  IF hi <= lo THEN st
  ELSE IF hi = lo + 1 THEN ff1Round(e, FALSE, lo, st)
  ELSE CHOOSE out \in {ff1DecRounds(e, lo, (lo + hi) \div 2, half) :
                         half \in {ff1DecRounds(e, (lo + hi) \div 2, hi, st)}} : TRUE

\* What both FF1 CryptBlocks compute before their loop.
ff1SetupOf(x, n, u, v, beta) ==
  [aesBlock |-> x.aesBlock, tweak |-> x.tweak, radix |-> x.radix,
   n |-> n, u |-> u, v |-> v, beta |-> beta, d |-> getFF1D(beta),
   p |-> getFF1P(x.radix, u, n, Len(x.tweak)),
   rounds |-> getFF1NbrRounds(n)]

\* the split with the longer half on the left
ff1SetupCeil(x, numeralString) ==
  ff1SetupOf(x, Len(numeralString), (Len(numeralString) + 1) \div 2,
             Len(numeralString) - (Len(numeralString) + 1) \div 2,
             getFF1B(Len(numeralString) - (Len(numeralString) + 1) \div 2, x.radix))

ff1Setup(x, numeralString) ==
  ff1SetupOf(x, Len(numeralString), Len(numeralString) \div 2,
             Len(numeralString) - Len(numeralString) \div 2,
             getFF1B(Len(numeralString) - Len(numeralString) \div 2, x.radix))

\* uint32(k) for an int k >= 0 given as a magnitude: its low 32 bits
Uint32(k) == IF Len(k) <= 4 THEN k ELSE Strip(SubSeq(k, Len(k) - 3, Len(k)))

\* maxInputLenFF1 = (1 << 32) - 1, as a magnitude
maxInputLenFF1 == <<255, 255, 255, 255>>

\* n = uint32(len(numeralString)); if n < minInputLenFF1 || n > maxInputLenFF1:
\* the panic message, NoPanic when the count passes.  len is the count as the
\* int len(numeralString), a magnitude.
ff1LenCheck(who, len) ==
  IF \/ MagCmp(Uint32(len), SmallMag(minInputLenFF1)) = -1
     \/ MagCmp(Uint32(len), maxInputLenFF1) = 1
  THEN who \o "/CryptBlocks: src length must be in [2..4294967295]."
  ELSE NoPanic

\* The checks of an FF1 CryptBlocks, in the code's order: the panic message,
\* NoPanic when the input passes.
ff1ChecksOf(who, x, dst, src, numeralString) ==
  IF ff1LenCheck(who, SmallMag(Len(numeralString))) # NoPanic
  THEN who \o "/CryptBlocks: src length must be in [2..4294967295]."
  ELSE IF PowLess100(x.radix, Len(numeralString))
  THEN who \o "/CryptBlocks: radix^len < 100."
  ELSE IF Len(dst) # Len(src)
  THEN who \o "/CryptBlocks: src and dst size must be equal."
  ELSE IF ~isNumeralStringValid(numeralString, x.radix)
  THEN who \o "/CryptBlocks: numeral string not valid."
  ELSE NoPanic

ff1Checks(who, x, dst, src) ==
  ff1ChecksOf(who, x, dst, src, BytesToNumeralString(src))

\* The end of an FF1 CryptBlocks, out being what its loop left:
\* copy(dst, NumeralStringToBytes(numeralString)).
ff1Finish(dst, out) ==
  IF out.panic # NoPanic
  THEN [panic |-> out.panic, dst |-> dst, cbcMode |-> out.cbcMode,
        log |-> out.log, ab |-> <<out.a, out.b>>]
  ELSE [panic |-> NoPanic, dst |-> Copy(dst, NumeralStringToBytes(out.val)),
        cbcMode |-> out.cbcMode, log |-> out.log, ab |-> <<out.a, out.b>>]

\* The state the loop of an FF1 CryptBlocks starts in: A = numeralString[:u],
\* B = numeralString[u:].
ff1Start(e, cbcMode, numeralString) ==
  [panic |-> NoPanic, val |-> numeralString, cbcMode |-> cbcMode,
   a |-> Slice(0, e.u), b |-> Slice(e.u, e.v), log |-> <<>>]

ff1EncryptLoop(e, cbcMode, dst, numeralString) ==
  ff1Finish(dst, ff1EncRounds(e, 0, e.rounds, ff1Start(e, cbcMode, numeralString)))

ff1DecryptLoop(e, cbcMode, dst, numeralString) ==
  ff1Finish(dst, ff1DecRounds(e, 0, e.rounds, ff1Start(e, cbcMode, numeralString)))

\* the source copied into dst ahead of the checks
ff1EncryptBlocksCopiesFirst(x, cbcMode, dst, src) ==
  IF ff1Checks("FF1Encrypter", x, dst, src) # NoPanic
  THEN [panic |-> ff1Checks("FF1Encrypter", x, dst, src), dst |-> Copy(dst, src),
        cbcMode |-> cbcMode, log |-> <<>>, ab |-> <<>>]
  ELSE ff1EncryptLoop(ff1Setup(x, BytesToNumeralString(src)), cbcMode, dst,
                      BytesToNumeralString(src))

\* ff1Encrypter.CryptBlocks(dst, src) on context x with CBC helper cbcMode:
\* [panic, dst, cbcMode, log, ab] as the call leaves them; ab is <<a, b>>,
\* the two slices as the loop left them.
ff1EncryptBlocks(x, cbcMode, dst, src) ==
  IF ff1Checks("FF1Encrypter", x, dst, src) # NoPanic
  THEN [panic |-> ff1Checks("FF1Encrypter", x, dst, src), dst |-> dst,
        cbcMode |-> cbcMode, log |-> <<>>, ab |-> <<>>]
  ELSE ff1EncryptLoop(ff1Setup(x, BytesToNumeralString(src)), cbcMode, dst,
                      BytesToNumeralString(src))

\* ff1Decrypter.CryptBlocks(dst, src)
ff1DecryptBlocks(x, cbcMode, dst, src) ==
  IF ff1Checks("FF1Decrypter", x, dst, src) # NoPanic
  THEN [panic |-> ff1Checks("FF1Decrypter", x, dst, src), dst |-> dst,
        cbcMode |-> cbcMode, log |-> <<>>, ab |-> <<>>]
  ELSE ff1DecryptLoop(ff1Setup(x, BytesToNumeralString(src)), cbcMode, dst,
                      BytesToNumeralString(src))

\* ----------------------------------------------------------------- ff3.go
\* floor(96 / log2(radix)): the greatest k with radix^k <= 2^96.
two96 == <<1>> \o Zeros(12)

RECURSIVE FloorLog96From(_, _, _)
FloorLog96Step(radix, k, pw, nxt, nxt4) ==
  IF radix <= 16 /\ MagCmp(nxt4, two96) # 1
  THEN FloorLog96From(radix, k + 4, nxt4)
  ELSE IF MagCmp(nxt, two96) = 1 THEN k
  ELSE FloorLog96From(radix, k + 1, nxt)

FloorLog96From(radix, k, pw) ==
  FloorLog96Step(radix, k, pw, MagMulAdd(pw, radix, 0),
                 MagMulAdd(pw, radix * radix * radix * radix, 0))

\* maxLength: 2 * floor(log_radix(2^96))
maxLength(radix) == 2 * FloorLog96From(radix, 0, <<1>>)

\* getFF3P: w[0..2] || [i]1 || [numRadix(rev(x))]12
getFF3PFill(w, i, nb) ==
  IF nb.panic # NoPanic THEN nb
  ELSE Ok(<<w[1], w[2], w[3], i % 256>> \o nb.val)

getFF3P(w, i, radix, x) ==
  getFF3PFill(w, i, getAsBBytes(numRadix(rev(x), radix), 12))

\* getFF3S: revB(aes.Encrypt(revB(p)))
getFF3S(p, aesBlock) == RevB(Encrypt(aesBlock, RevB(p)))

\* getFF3CEnc: c = (numRadix(rev(x), radix) + y) mod radix^m
getFF3CEnc(x, y, radix, m) ==
  BigModExp(BigAdd(numRadix(rev(x), radix), y), radix, m)

\* the difference taken from the numerals in their stored order
getFF3CDecNoRev(x, y, radix, m) ==
  BigModExp(BigSub(numRadix(x, radix), y), radix, m)

\* getFF3CDec: c = (numRadix(rev(x), radix) - y) mod radix^m
getFF3CDec(x, y, radix, m) ==
  BigModExp(BigSub(numRadix(rev(x), radix), y), radix, m)

getFF3NbrRounds(l) ==
  IF l >= 32 THEN 12
  ELSE IF l >= 20 THEN 18
  ELSE IF l >= 14 THEN 24
  ELSE IF l >= 10 THEN 30
  ELSE 36

\* The passes of the loops of ff3Encrypter.CryptBlocks (enc) and of
\* ff3Decrypter.CryptBlocks.  st is [panic, val, a, b, log]: val the backing
\* array of numeralString, a and b the two slices of it, log what each pass
\* so far computed.  A pass after a panic does nothing.
\* the halves of the tweak taken in the other order
roundWFromLeft(e, i) == IF i % 2 = 0 THEN e.tl ELSE e.tr

roundW(e, i) == IF i % 2 = 0 THEN e.tr ELSE e.tl

\* copy(a, rev(strMRadix(radix, m, c))); a, b = b, a  (decryption: copy(b, ...))
ff3RoundCopy(e, enc, i, st, p, y, c, str) ==
  IF str.panic # NoPanic THEN [st EXCEPT !.panic = str.panic]
  ELSE [panic |-> NoPanic,
        val |-> CopyInto(st.val, IF enc THEN st.a ELSE st.b, rev(str.val)),
        a |-> st.b, b |-> st.a,
        log |-> Append(st.log,
                  [i |-> i, m |-> roundM(e, i), a |-> st.a, b |-> st.b,
                   wrote |-> IF enc THEN st.a ELSE st.b,
                   w |-> roundW(e, i), p |-> p.val, y |-> y, c |-> c,
                   str |-> str.val,
                   val |-> CopyInto(st.val, IF enc THEN st.a ELSE st.b,
                                    rev(str.val))])]

ff3RoundStr(e, enc, i, st, p, y, c) ==
  ff3RoundCopy(e, enc, i, st, p, y, c, strMRadix(e.radix, roundM(e, i), c))

\* c = getFF3CEnc(a, y, radix, m)  (decryption: getFF3CDec(b, y, radix, m))
ff3RoundC(e, enc, i, st, p, y) ==
  ff3RoundStr(e, enc, i, st, p, y,
              IF enc THEN getFF3CEnc(View(st.val, st.a), y, e.radix, roundM(e, i))
              ELSE getFF3CDec(View(st.val, st.b), y, e.radix, roundM(e, i)))

\* s = getFF3S(p, aesBlock); y = num(s)
ff3RoundS(e, enc, i, st, p) ==
  IF p.panic # NoPanic THEN [st EXCEPT !.panic = p.panic]
  ELSE ff3RoundC(e, enc, i, st, p, num(getFF3S(p.val, e.aesBlock)))

\* p = getFF3P(w, i, radix, b)  (decryption: ..., a)
ff3Round(e, enc, i, st) ==
  IF st.panic # NoPanic THEN st
  ELSE ff3RoundS(e, enc, i, st,
                 getFF3P(roundW(e, i), i, e.radix,
                         View(st.val, IF enc THEN st.b ELSE st.a)))

\* for i := 0; i < roundsFF3; i++: the passes lo, lo + 1, ..., hi - 1 in this
\* order, the first half of them applied before the second.
RECURSIVE ff3EncRounds(_, _, _, _)
ff3EncRounds(e, lo, hi, st) ==
  IF hi <= lo THEN st
  ELSE IF hi = lo + 1 THEN ff3Round(e, TRUE, lo, st)
  ELSE CHOOSE out \in {ff3EncRounds(e, (lo + hi) \div 2, hi, half) :
                         half \in {ff3EncRounds(e, lo, (lo + hi) \div 2, st)}} : TRUE

\* for i := roundsFF3-1; i >= 0; i--: the passes hi - 1, ..., lo + 1, lo in
\* this order.
RECURSIVE ff3DecRounds(_, _, _, _)
ff3DecRounds(e, lo, hi, st) ==
  IF hi <= lo THEN st
  ELSE IF hi = lo + 1 THEN ff3Round(e, FALSE, lo, st)
  ELSE CHOOSE out \in {ff3DecRounds(e, lo, (lo + hi) \div 2, half) :
                         half \in {ff3DecRounds(e, (lo + hi) \div 2, hi, st)}} : TRUE

\* What both FF3 CryptBlocks compute before their loop.
ff3Setup(x, numeralString) ==
  [aesBlock |-> x.aesBlock, radix |-> x.radix,
   n |-> Len(numeralString),
   u |-> (Len(numeralString) + 1) \div 2,
   v |-> Len(numeralString) - (Len(numeralString) + 1) \div 2,
   tl |-> SubSeq(x.tweak, 1, 3), tr |-> SubSeq(x.tweak, 4, Len(x.tweak)),
   rounds |-> getFF3NbrRounds(Len(numeralString))]

\* The checks of an FF3 CryptBlocks, in the code's order.
ff3ChecksOf(who, x, dst, src, numeralString) ==
  IF Len(numeralString) < minInputLenFF3 \/ Len(numeralString) > maxLength(x.radix)
  THEN who \o "/CryptBlocks: src length not supported."
  ELSE IF PowLess100(x.radix, Len(numeralString))
  THEN who \o "/CryptBlocks: radix^len < 100."
  ELSE IF Len(dst) # Len(src)
  THEN who \o "/CryptBlocks: src and dst size must be equal."
  ELSE IF ~isNumeralStringValid(numeralString, x.radix)
  THEN who \o "/CryptBlocks: numeral string not valid."
  ELSE NoPanic

ff3Checks(who, x, dst, src) ==
  ff3ChecksOf(who, x, dst, src, BytesToNumeralString(src))

\* The end of an FF3 CryptBlocks, out being what its loop left:
\* copy(dst, NumeralStringToBytes(numeralString)).
ff3Finish(dst, out) ==
  IF out.panic # NoPanic
  THEN [panic |-> out.panic, dst |-> dst, log |-> out.log, ab |-> <<out.a, out.b>>]
  ELSE [panic |-> NoPanic, dst |-> Copy(dst, NumeralStringToBytes(out.val)),
        log |-> out.log, ab |-> <<out.a, out.b>>]

\* The state the loop of an FF3 CryptBlocks starts in: A = numeralString[:u],
\* B = numeralString[u:].
ff3Start(e, numeralString) ==
  [panic |-> NoPanic, val |-> numeralString,
   a |-> Slice(0, e.u), b |-> Slice(e.u, e.v), log |-> <<>>]

ff3EncryptLoop(e, dst, numeralString) ==
  ff3Finish(dst, ff3EncRounds(e, 0, e.rounds, ff3Start(e, numeralString)))

ff3DecryptLoop(e, dst, numeralString) ==
  ff3Finish(dst, ff3DecRounds(e, 0, e.rounds, ff3Start(e, numeralString)))

\* ff3Encrypter.CryptBlocks(dst, src) on context x: [panic, dst, log]
ff3EncryptBlocks(x, dst, src) ==
  IF ff3Checks("FF3Encrypter", x, dst, src) # NoPanic
  THEN [panic |-> ff3Checks("FF3Encrypter", x, dst, src), dst |-> dst, log |-> <<>>,
        ab |-> <<>>]
  ELSE ff3EncryptLoop(ff3Setup(x, BytesToNumeralString(src)), dst,
                      BytesToNumeralString(src))

\* ff3Decrypter.CryptBlocks(dst, src)
ff3DecryptBlocks(x, dst, src) ==
  IF ff3Checks("FF3Decrypter", x, dst, src) # NoPanic
  THEN [panic |-> ff3Checks("FF3Decrypter", x, dst, src), dst |-> dst, log |-> <<>>,
        ab |-> <<>>]
  ELSE ff3DecryptLoop(ff3Setup(x, BytesToNumeralString(src)), dst,
                      BytesToNumeralString(src))

\* ------------------------------------------------------------ constructors
\* newFF1 / newFF3: the context owns a copy of the tweak.  tweakOwn tells
\* whether the array behind the slice x.tweak is the context's own (TRUE) or
\* one the caller holds too.
newFF1(kind, aesBlock, tweak, radix) ==
  [kind |-> kind, aesBlock |-> aesBlock, tweak |-> dup(tweak),
   tweakOwn |-> dupFresh, radix |-> radix]

newFF3(kind, aesBlock, tweak, radix) ==
  [kind |-> kind, aesBlock |-> aesBlock, tweak |-> dup(tweak),
   tweakOwn |-> dupFresh, radix |-> radix]

\* the tweak check with the upper limit excluded
NewFF1TweakBelowMax(name, kind, aesBlock, cbcMode, tweak, radix) ==
  IF Len(tweak) >= maxTweakLenFF1
  THEN Panic(name \o ": tweak must be [0..65536] bytes.")
  ELSE Ok(newFF1(kind, aesBlock, tweak, radix))

\* NewFF1Encrypter / NewFF1Decrypter: [panic, val]; name is the caller's name
\* in the messages.  cbcMode.hasSetIV is the outcome of the type assertion
\* cbcMode.(cbcWithSetIV).
NewFF1(name, kind, aesBlock, cbcMode, tweak, radix) ==
  IF Len(tweak) < minTweakLenFF1 \/ Len(tweak) > maxTweakLenFF1
  THEN Panic(name \o ": tweak must be [0..65536] bytes.")
  ELSE IF radix < minRadixFF1 \/ radix > maxRadixFF1
  THEN Panic(name \o ": radix must be in [2..65536].")
  ELSE IF BlockSize(aesBlock) # blockSizeFF1
  THEN Panic(name \o ": block size must be 16 bytes.")
  ELSE IF ~cbcMode.hasSetIV
  THEN Panic(name \o ": CBC mode must have a SetIV function.")
  ELSE Ok(newFF1(kind, aesBlock, tweak, radix))

NewFF1Encrypter(aesBlock, cbcMode, tweak, radix) ==
  NewFF1("NewFF1Encrypter", "ff1Encrypter", aesBlock, cbcMode, tweak, radix)

NewFF1Decrypter(aesBlock, cbcMode, tweak, radix) ==
  NewFF1("NewFF1Decrypter", "ff1Decrypter", aesBlock, cbcMode, tweak, radix)

\* NewFF3Encrypter / NewFF3Decrypter
NewFF3(name, kind, aesBlock, tweak, radix) ==
  IF Len(tweak) # tweakLenFF3
  THEN Panic(name \o ": tweak must be 6 bytes.")
  ELSE IF radix < minRadixFF3 \/ radix > maxRadixFF3
  THEN Panic(name \o ": radix must be in [2..65536].")
  ELSE IF BlockSize(aesBlock) # blockSizeFF3
  THEN Panic(name \o ": block size must be 16 bytes.")
  ELSE Ok(newFF3(kind, aesBlock, tweak, radix))

NewFF3Encrypter(aesBlock, tweak, radix) ==
  NewFF3("NewFF3Encrypter", "ff3Encrypter", aesBlock, tweak, radix)

NewFF3Decrypter(aesBlock, tweak, radix) ==
  NewFF3("NewFF3Decrypter", "ff3Decrypter", aesBlock, tweak, radix)

IsFF1(x) == x.kind \in {"ff1Encrypter", "ff1Decrypter"}
IsEncrypter(x) == x.kind \in {"ff1Encrypter", "ff3Encrypter"}

\* x.CryptBlocks(dst, src) through the BlockMode interface:
\* [panic, dst, cbcMode, log, ab] as the call leaves them; ab is <<a, b>>,
\* the two slices as the loop left them.
ff3Result(r, cbcMode) ==
  [panic |-> r.panic, dst |-> r.dst, cbcMode |-> cbcMode, log |-> r.log,
   ab |-> r.ab]

CryptBlocks(x, cbcMode, dst, src) ==
  IF x.kind = "ff1Encrypter" THEN ff1EncryptBlocks(x, cbcMode, dst, src)
  ELSE IF x.kind = "ff1Decrypter" THEN ff1DecryptBlocks(x, cbcMode, dst, src)
  ELSE IF x.kind = "ff3Encrypter" THEN ff3Result(ff3EncryptBlocks(x, dst, src), cbcMode)
  ELSE ff3Result(ff3DecryptBlocks(x, dst, src), cbcMode)

\* SetTweak that keeps the caller's slice in place of copying from it
ff1SetTweakKeepsSlice(x, tweak) ==
  IF Len(tweak) < minTweakLenFF1 \/ Len(tweak) > maxTweakLenFF1
  THEN [panic |-> "SetTweak: tweak must be [0..65536] bytes.", val |-> x]
  ELSE Ok([x EXCEPT !.tweak = tweak, !.tweakOwn = FALSE])

\* ff1Encrypter.SetTweak / ff1Decrypter.SetTweak: [panic, val], val the
\* context as the call leaves it.  copy writes into the array x.tweak
\* already points to.
ff1SetTweak(x, tweak) ==
  IF Len(tweak) < minTweakLenFF1 \/ Len(tweak) > maxTweakLenFF1
  THEN [panic |-> "SetTweak: tweak must be [0..65536] bytes.", val |-> x]
  ELSE Ok([x EXCEPT !.tweak = Copy(x.tweak, tweak)])

\* ff3Encrypter.SetTweak / ff3Decrypter.SetTweak
ff3SetTweak(x, tweak) ==
  IF Len(tweak) # tweakLenFF3
  THEN [panic |-> "SetTweak: tweak must be 6 bytes.", val |-> x]
  ELSE Ok([x EXCEPT !.tweak = Copy(x.tweak, tweak)])

\* SetRadix without its check
ff1SetRadixUnchecked(x, radix) == Ok([x EXCEPT !.radix = radix])

\* ff1Encrypter.SetRadix / ff1Decrypter.SetRadix
ff1SetRadix(x, radix) ==
  IF radix < minRadixFF1 \/ radix > maxRadixFF1
  THEN [panic |-> "SetRadix: radix must be in [2..65536].", val |-> x]
  ELSE Ok([x EXCEPT !.radix = radix])

\* ff3Encrypter.SetRadix / ff3Decrypter.SetRadix
ff3SetRadix(x, radix) ==
  IF radix < minRadixFF3 \/ radix > maxRadixFF3
  THEN [panic |-> "SetRadix: radix must be in [2..65536].", val |-> x]
  ELSE Ok([x EXCEPT !.radix = radix])

\* x.SetTweak(tweak) and x.SetRadix(radix) on a context of either mode
SetTweak(x, tweak) == IF IsFF1(x) THEN ff1SetTweak(x, tweak) ELSE ff3SetTweak(x, tweak)
SetRadix(x, radix) == IF IsFF1(x) THEN ff1SetRadix(x, radix) ELSE ff3SetRadix(x, radix)

\* ===================================================================== state
VARIABLES
  cbcMode,  \* the CBC helper the FF1 contexts share: [block, iv, hasSetIV]
  ctx,      \* [enc, dec]: the encrypter and the decrypter, Nil before construction
  src,      \* the caller's source buffer
  dst,      \* the caller's destination buffer
  inplace,  \* the caller passes one buffer as dst and src (CryptBlocks(x, x))
  panic,    \* the message the last call panicked with, NoPanic if it returned
  last,     \* the last call made: [op, who, arg, ret]
  hist,     \* the calls made on the contexts so far, oldest first:
            \* [op, who, x, arg, src, dst0, dst, panic], x the context as the
            \* call found it, dst0 and dst the destination before and after;
            \* a CryptBlocks adds iv0, the IV the helper held when the call
            \* began, log, what each pass of its loop computed, and ab, the
            \* slices a and b as its loop left them
  want,     \* per context, the tweak its constructor or SetTweak last accepted
  running   \* the CryptBlocks calls in progress in goroutines of their own:
            \* [procs, at, switches], procs the calls in the order they were
            \* started, at the goroutine that took the last step, switches
            \* how often a goroutine was preempted

vars == <<cbcMode, ctx, src, dst, inplace, panic, last, hist, want, running>>

\* no call in progress: every call runs to its end within one step
NoneRunning == [procs |-> <<>>, at |-> 0, switches |-> 0]

Nil == [kind |-> "nil"]
Who == {"enc", "dec"}

\* ------------------------------------------------------------------- bounds
MaxLen == 3
MaxCalls == 2

\* ------------------------------------------------------------------- inputs
Radixes == {2, 10, 65536}

\* the caller's key material: a Block with the tweak used for either mode
Keys ==
  {[block |-> "rot", tweakFF1 |-> <<>>, tweakFF3 |-> <<1, 2, 3, 250, 251, 252>>],
   [block |-> "mix", tweakFF1 |-> <<1, 2, 3, 4, 5, 6, 7, 8, 9, 10, 11, 12, 13, 14>>,
    tweakFF3 |-> <<0, 0, 0, 0, 0, 0>>]}

CbcIV == [i \in 1..16 |-> (11 * i) % 256]

\* r^n < 100, for r >= 2: no power with r >= 10 and n >= 2, or n >= 7, is
Below100(r, n) ==
  \/ n = 0
  \/ n = 1 /\ r < 100
  \/ n \in 2..6 /\ r < 10 /\ r ^ n < 100

\* the least n with radix^n >= 100
MinOk(radix) == CHOOSE n \in 1..7 : ~Below100(radix, n) /\ Below100(radix, n - 1)

\* numeral strings a caller prepares for radix r: all r-1, a ramp, and the
\* ramp with a last numeral r that is no numeral of the radix
Numerals(pat, n, r) ==
  [i \in 1..n |->
     IF pat = "max" THEN r - 1
     ELSE IF pat = "bad" /\ i = n THEN r
     ELSE (3 + 7 * i) % r]

\* no uint16 is out of range for radix 2^16
Patterns(r) == IF r < 65536 THEN {"max", "bad"} ELSE {"max"}

\* the lengths the caller tries: the short ones, the two around radix^n = 100,
\* and for FF3 the two around maxLength (the accepted one while it is short)
LoadLens(x) ==
  ((1..MaxLen) \cup {MinOk(x.radix) - 1, MinOk(x.radix)}
     \cup (IF IsFF1(x) THEN {}
          ELSE {maxLength(x.radix) + 1}
                 \cup (IF maxLength(x.radix) <= 4 * MaxLen
                      THEN {maxLength(x.radix)} ELSE {})))
  \ {0}

\* the lengths at the edge of what a transform accepts
EdgeLens(x) ==
  {MinOk(x.radix)}
    \cup (IF ~IsFF1(x) /\ maxLength(x.radix) <= 4 * MaxLen
         THEN {maxLength(x.radix)} ELSE {})

Filler(n) == [i \in 1..n |-> 170]

\* the calls made on the contexts so far
NCalls == Cardinality({i \in DOMAIN hist : hist[i].who \in Who})

Call(op, who, arg, ret) == [op |-> op, who |-> who, arg |-> arg, ret |-> ret]

\* ------------------------------------------------------------------ actions
\* The caller fills its buffers: numerals for the encrypter's radix, through
\* NumeralStringToBytes; in place as in the README, or with a destination of
\* its own (of the same length, with a trailing unpaired byte on both, or one
\* byte short).
Load(n, pat, how) ==
  /\ src = <<>>
  /\ ctx.enc # Nil
  /\ LET b == NumeralStringToBytes(Numerals(pat, n, ctx.enc.radix))
     IN  /\ src' = IF how = "odd" THEN Append(b, 85) ELSE b
         /\ dst' = IF how = "inplace" THEN b
                   ELSE IF how = "fresh" THEN Filler(Len(b))
                   ELSE IF how = "odd" THEN Filler(Len(b) + 1)
                   ELSE Filler(Len(b) - 1)
  /\ inplace' = (how = "inplace")
  /\ last' = Call("Load", "caller", <<n, pat, how>>, <<>>)
  /\ panic' = NoPanic
  /\ UNCHANGED <<cbcMode, ctx, hist, want, running>>

\* ctx[c].CryptBlocks(dst, src)
Crypt(c) ==
  /\ src # <<>>
  /\ ctx[c] # Nil
  /\ NCalls < MaxCalls
  /\ \E res \in {CryptBlocks(ctx[c], cbcMode, dst, src)} :
       /\ dst' = res.dst
       /\ src' = IF inplace THEN res.dst ELSE src
       /\ cbcMode' = res.cbcMode
       /\ panic' = res.panic
       /\ hist' = Append(hist, [op |-> "CryptBlocks", who |-> c, x |-> ctx[c],
                                arg |-> <<>>, src |-> src, dst0 |-> dst,
                                dst |-> res.dst, panic |-> res.panic,
                                iv0 |-> cbcMode.iv, log |-> res.log,
                                ab |-> res.ab])
       /\ last' = Call("CryptBlocks", c, <<>>, res.dst)
  /\ UNCHANGED <<ctx, inplace, want, running>>

\* The state after construction: an encrypter and a decrypter of one mode,
\* built as in the README with the same Block, tweak and radix, and for FF1
\* the same CBC helper.
Built(mode, k, r) ==
  LET cbc == [block |-> k.block, iv |-> CbcIV, hasSetIV |-> TRUE]
      t   == IF mode = "FF1" THEN k.tweakFF1 ELSE k.tweakFF3
  IN  /\ cbcMode = cbc
      /\ ctx = IF mode = "FF1"
               THEN [enc |-> NewFF1Encrypter(k.block, cbc, t, r).val,
                     dec |-> NewFF1Decrypter(k.block, cbc, t, r).val]
               ELSE [enc |-> NewFF3Encrypter(k.block, t, r).val,
                     dec |-> NewFF3Decrypter(k.block, t, r).val]
      /\ panic = NoPanic
      /\ last = Call("New", "caller", <<>>, <<>>)
      /\ hist = <<>>
      /\ want = [enc |-> t, dec |-> t]

Init ==
  /\ \E mode \in {"FF1", "FF3"}, r \in Radixes, k \in Keys : Built(mode, k, r)
  /\ src = <<>>
  /\ dst = <<>>
  /\ inplace = TRUE
  /\ running = NoneRunning

Next ==
  \/ \E n \in LoadLens(ctx.enc) : Load(n, "ramp", "inplace")
  \/ \E n \in EdgeLens(ctx.enc), pat \in Patterns(ctx.enc.radix) :
       Load(n, pat, "inplace")
  \/ \E how \in {"fresh", "odd", "short"} :
       Load(MinOk(ctx.enc.radix), "ramp", how)
  \/ \E c \in Who : Crypt(c)

Spec == Init /\ [][Next]_vars

\* ------------------------------------------------------------ setter session
\* The tweaks and radixes a caller hands to the setters of context x: for
\* FF1 a tweak shorter than the one the context holds and one of its length;
\* for FF3 six bytes and five; a radix at the top of the range and one below
\* it.
SetTweaks(x) ==
  IF IsFF1(x)
  THEN {<<21, 22, 23>>, [i \in 1..Len(x.tweak) |-> 100 + i]}
  ELSE {<<9, 8, 7, 6, 5, 4>>, <<1, 2, 3, 4, 5>>}

SetRadixes == {1, 65536}

\* ctx[c].SetTweak(t)
SetTweakCall(c, t) ==
  /\ ctx[c] # Nil
  /\ NCalls < MaxCalls
  /\ \E res \in {SetTweak(ctx[c], t)} :
       /\ ctx' = [ctx EXCEPT ![c] = res.val]
       /\ panic' = res.panic
       /\ want' = IF res.panic = NoPanic THEN [want EXCEPT ![c] = t] ELSE want
       /\ hist' = Append(hist, [op |-> "SetTweak", who |-> c, x |-> ctx[c],
                                arg |-> t, src |-> src, dst0 |-> dst,
                                dst |-> dst, panic |-> res.panic])
       /\ last' = Call("SetTweak", c, t, <<>>)
  /\ UNCHANGED <<cbcMode, src, dst, inplace, running>>

\* ctx[c].SetRadix(r)
SetRadixCall(c, r) ==
  /\ ctx[c] # Nil
  /\ NCalls < MaxCalls
  /\ \E res \in {SetRadix(ctx[c], r)} :
       /\ ctx' = [ctx EXCEPT ![c] = res.val]
       /\ panic' = res.panic
       /\ hist' = Append(hist, [op |-> "SetRadix", who |-> c, x |-> ctx[c],
                                arg |-> r, src |-> src, dst0 |-> dst,
                                dst |-> dst, panic |-> res.panic])
       /\ last' = Call("SetRadix", c, r, <<>>)
  /\ UNCHANGED <<cbcMode, src, dst, inplace, want, running>>

\* A pair of contexts of one mode over radix 10 and a buffer of seven
\* numerals 0/1, which every radix takes, passed in place.
InitSet ==
  /\ \E mode \in {"FF1", "FF3"} :
       Built(mode, CHOOSE k \in Keys : k.block = "mix", 10)
  /\ src = NumeralStringToBytes(Numerals("ramp", 7, 2))
  /\ dst = src
  /\ inplace = TRUE
  /\ running = NoneRunning

NextSet ==
  \/ \E c \in Who : \E t \in SetTweaks(ctx[c]) : SetTweakCall(c, t)
  \/ \E c \in Who, r \in SetRadixes : SetRadixCall(c, r)
  \/ \E c \in Who : Crypt(c)

SpecSet == InitSet /\ [][NextSet]_vars

\* The same session with tweaks and radixes on both sides of every limit of
\* the setters: for FF1 a short tweak, one of 2^16 bytes and one of
\* 2^16 + 1; for FF3 five, six and seven bytes; the radixes 0, 1, 2, 2^16
\* and 2^16 + 1.
LimitTweaks(x) ==
  IF IsFF1(x)
  THEN {<<21, 22, 23>>, [i \in 1..maxTweakLenFF1 |-> 200],
        [i \in 1..(maxTweakLenFF1 + 1) |-> 200]}
  ELSE {<<1, 2, 3, 4, 5>>, <<9, 8, 7, 6, 5, 4>>, <<1, 2, 3, 4, 5, 6, 7>>}

LimitRadixes == {0, 1, 2, 65536, 65537}

NextLimits ==
  \/ \E c \in Who : \E t \in LimitTweaks(ctx[c]) : SetTweakCall(c, t)
  \/ \E c \in Who, r \in LimitRadixes : SetRadixCall(c, r)
  \/ \E c \in Who : Crypt(c)

SpecLimits == InitSet /\ [][NextLimits]_vars

\* --------------------------------------------------------------- construction
\* What a caller hands to the constructors: a Block (mockBlock has block size
\* 10), a CBC helper with or without SetIV, tweaks of the lengths around the
\* limits of both modes and of the README's FF3 example, radixes around the
\* limits.
NewBlocks == {"rot", "mockBlock"}
NewTweaks ==
  {<<>>, <<1, 2, 3, 250, 251, 252>>, Zeros(8),
   Zeros(maxTweakLenFF1), Zeros(maxTweakLenFF1 + 1)}
NewRadixes == {1, 2, 10, 65536, 65537}

NewArgs(mode) ==
  [mode : {mode}, block : NewBlocks,
   hasSetIV : IF mode = "FF1" THEN BOOLEAN ELSE {TRUE},
   tweak : NewTweaks, radix : NewRadixes]

\* the constructor of side c called with arguments a: [panic, val]
New(c, a) ==
  LET cbc == [block |-> a.block, iv |-> CbcIV, hasSetIV |-> a.hasSetIV]
  IN  IF a.mode = "FF1"
      THEN IF c = "enc" THEN NewFF1Encrypter(a.block, cbc, a.tweak, a.radix)
           ELSE NewFF1Decrypter(a.block, cbc, a.tweak, a.radix)
      ELSE IF c = "enc" THEN NewFF3Encrypter(a.block, a.tweak, a.radix)
           ELSE NewFF3Decrypter(a.block, a.tweak, a.radix)

NewName(c, a) ==
  "New" \o a.mode \o (IF c = "enc" THEN "Encrypter" ELSE "Decrypter")

\* The caller constructs the context of side c.  The second context of a
\* pair is constructed with the arguments of the first, as in the README.
NewCall(c, a) ==
  /\ ctx[c] = Nil
  /\ panic = NoPanic
  /\ last.op = "start" \/ last.arg = a
  /\ \E res \in {New(c, a)} :
       /\ panic' = res.panic
       /\ ctx' = IF res.panic = NoPanic THEN [ctx EXCEPT ![c] = res.val] ELSE ctx
       /\ want' = IF res.panic = NoPanic THEN [want EXCEPT ![c] = a.tweak] ELSE want
       /\ last' = Call(NewName(c, a), c, a, res.val)
  /\ cbcMode' = [block |-> a.block, iv |-> CbcIV, hasSetIV |-> a.hasSetIV]
  /\ UNCHANGED <<src, dst, inplace, hist, running>>

InitNew ==
  /\ cbcMode = [block |-> "rot", iv |-> CbcIV, hasSetIV |-> TRUE]
  /\ ctx = [enc |-> Nil, dec |-> Nil]
  /\ src = <<>>
  /\ dst = <<>>
  /\ inplace = TRUE
  /\ running = NoneRunning
  /\ panic = NoPanic
  /\ last = Call("start", "caller", <<>>, <<>>)
  /\ hist = <<>>
  /\ want = [enc |-> <<>>, dec |-> <<>>]

NextNew ==
  \E c \in Who, mode \in {"FF1", "FF3"} : \E a \in NewArgs(mode) : NewCall(c, a)

SpecNew == InitNew /\ [][NextNew]_vars

\* ---------------------------------------------------------- the conversions
\* The numerals the conversions are tried on, and the numeral strings of up
\* to MaxLen of them.
Digits == {0, 1, 9, 255, 256, 65535}
NumeralStrings == UNION {[1..n -> Digits] : n \in 0..MaxLen}

\* The caller holds a numeral string X and a radix.
InitCodec ==
  /\ \E X \in NumeralStrings, r \in Radixes :
       last = Call("input", "caller", [x |-> X, radix |-> r], <<>>)
  /\ cbcMode = [block |-> "rot", iv |-> CbcIV, hasSetIV |-> TRUE]
  /\ ctx = [enc |-> Nil, dec |-> Nil]
  /\ src = <<>>
  /\ dst = <<>>
  /\ inplace = TRUE
  /\ running = NoneRunning
  /\ panic = NoPanic
  /\ hist = <<>>
  /\ want = [enc |-> <<>>, dec |-> <<>>]

\* NumeralStringToBytes(X)
ToBytes ==
  /\ last.op = "input"
  /\ last' = Call("NumeralStringToBytes", "caller", last.arg.x,
                  NumeralStringToBytes(last.arg.x))
  /\ UNCHANGED <<cbcMode, ctx, src, dst, inplace, panic, hist, want, running>>

\* BytesToNumeralString on the bytes of X, and on them with one byte more
ToNumerals(extra) ==
  /\ last.op = "NumeralStringToBytes"
  /\ LET b == last.ret \o extra
     IN  last' = Call("BytesToNumeralString", "caller", b, BytesToNumeralString(b))
  /\ UNCHANGED <<cbcMode, ctx, src, dst, inplace, panic, hist, want, running>>

\* x := numRadix(X, radix); strMRadix(radix, m, x), for X over the radix and
\* m = len(X) + pad.  ret is what the call returned and what it left in x.
ToNumeralsOfRadix(pad) ==
  /\ last.op = "input"
  /\ isNumeralStringValid(last.arg.x, last.arg.radix)
  /\ LET r == last.arg.radix
         m == Len(last.arg.x) + pad
         x == numRadix(last.arg.x, r)
         res == strMRadix(r, m, x)
     IN  /\ last' = Call("strMRadix", "caller",
                         [X |-> last.arg.x, radix |-> r, m |-> m, x |-> x],
                         [val |-> res.val, x |-> strMRadixLeaves(r, m, x)])
         /\ panic' = res.panic
  /\ UNCHANGED <<cbcMode, ctx, src, dst, inplace, hist, want, running>>

NextCodec ==
  \/ ToBytes
  \/ \E extra \in {<<>>, <<7>>} : ToNumerals(extra)
  \/ \E pad \in {0, 1} : ToNumeralsOfRadix(pad)

SpecCodec == InitCodec /\ [][NextCodec]_vars

\* --------------------------------------------------- the caller's buffers
\* The caller overwrites the tweak buffers it handed to the constructors and
\* to SetTweak.  A context whose tweak slice points into such a buffer sees
\* the new bytes; one that points into an array of its own does not.
Scribble(t) == [i \in 1..Len(t) |-> 255 - t[i]]

AfterWrite(x) == IF x.tweakOwn THEN x ELSE [x EXCEPT !.tweak = Scribble(x.tweak)]

CallerWrites ==
  /\ \A i \in DOMAIN hist : hist[i].op # "CallerWrites"
  /\ ctx' = [c \in Who |-> AfterWrite(ctx[c])]
  /\ hist' = Append(hist, [op |-> "CallerWrites", who |-> "caller", x |-> ctx,
                           arg |-> [c \in Who |-> Scribble(want[c])],
                           src |-> src, dst0 |-> dst, dst |-> dst,
                           panic |-> NoPanic,
                           after |-> [c \in Who |-> AfterWrite(ctx[c])]])
  /\ last' = Call("CallerWrites", "caller", <<>>, <<>>)
  /\ panic' = NoPanic
  /\ UNCHANGED <<cbcMode, src, dst, inplace, want, running>>

\* A pair of contexts of one mode and a buffer of seven numerals 0/1, passed
\* in place.
InitOwn ==
  /\ \E mode \in {"FF1", "FF3"}, r \in {2, 10} :
       Built(mode, CHOOSE k \in Keys : k.block = "mix", r)
  /\ src = NumeralStringToBytes(Numerals("ramp", 7, 2))
  /\ dst = src
  /\ inplace = TRUE
  /\ running = NoneRunning

NextOwn ==
  \/ \E c \in Who : \E t \in SetTweaks(ctx[c]) : SetTweakCall(c, t)
  \/ CallerWrites
  \/ \E c \in Who : Crypt(c)

SpecOwn == InitOwn /\ [][NextOwn]_vars

\* ------------------------------------------------------- the parts of FF1
\* getFF1P, getFF1Q and getFF1S called on their own, on arguments at the
\* ends of the ranges of their parameters, and called by the transforms of
\* a pair of FF1 contexts.
PartTweak(t) == [i \in 1..t |-> (7 * i + 1) % 256]

PartInputsP ==
  {[fn |-> "getFF1P", radix |-> r, u |-> u, n |-> n, t |-> t] :
     r \in {2, 10, 255, 256, 65535, 65536}, u \in {1, 255, 256, 1000},
     n \in {2, 511, 65536, 16777217, 2147483647}, t \in {0, 14, 256, 65536}}

\* a numeral string with the least b that holds its number, and wider ones
PartInputsQ ==
  {[fn |-> "getFF1Q", tweak |-> PartTweak(t), radix |-> xr[2], b |-> b,
    i |-> i, x |-> xr[1]] :
     t \in (0..17) \cup {31, 32, 33},
     xr \in {<<(<<9, 9, 9>>), 10>>, <<(<<1, 0, 65535, 7>>), 65536>>, <<(<<1>>), 2>>},
     b \in {1, 2, 8, 9, 16}, i \in {0, 35}}

PartInputsS ==
  {[fn |-> "getFF1S", k |-> k, r |-> r, beta |-> beta] :
     k \in {"rot", "mix"}, r \in {CbcIV, PartTweak(blockSizeFF1)},
     beta \in {1, 4, 5, 8, 9, 12, 13, 16, 28, 29, 44, 45}}

InitParts ==
  /\ \/ /\ \E a \in PartInputsP \cup PartInputsQ \cup PartInputsS :
             last = Call("input", "caller", a, <<>>)
        /\ cbcMode = [block |-> "rot", iv |-> CbcIV, hasSetIV |-> TRUE]
        /\ ctx = [enc |-> Nil, dec |-> Nil]
        /\ src = <<>>
        /\ panic = NoPanic
        /\ hist = <<>>
        /\ want = [enc |-> <<>>, dec |-> <<>>]
     \/ \E k \in Keys, rn \in {<<10, 2>>, <<10, 3>>, <<65536, 2>>, <<65536, 5>>,
                              <<65536, 14>>} :
          /\ Built("FF1", k, rn[1])
          /\ src = NumeralStringToBytes(Numerals("ramp", rn[2], rn[1]))
  /\ dst = src
  /\ inplace = TRUE
  /\ running = NoneRunning

\* getFF1P(radix, u, n, t)
GetFF1PAt ==
  /\ last.op = "input"
  /\ last.arg.fn = "getFF1P"
  /\ last' = Call("getFF1P", "caller", last.arg,
                  getFF1P(last.arg.radix, last.arg.u, last.arg.n, last.arg.t))
  /\ UNCHANGED <<cbcMode, ctx, src, dst, inplace, panic, hist, want, running>>

\* getFF1Q(tweak, radix, b, i, x)
GetFF1QAt ==
  /\ last.op = "input"
  /\ last.arg.fn = "getFF1Q"
  /\ \E res \in {getFF1Q(last.arg.tweak, last.arg.radix, last.arg.b,
                          last.arg.i, last.arg.x)} :
       /\ last' = Call("getFF1Q", "caller", last.arg, res.val)
       /\ panic' = res.panic
  /\ UNCHANGED <<cbcMode, ctx, src, dst, inplace, hist, want, running>>

\* d := getFF1D(beta); getFF1S(aesBlock, r, d); ret is [d, s, encrypts],
\* encrypts the blocks handed to aesBlock.Encrypt
GetFF1SAt ==
  /\ last.op = "input"
  /\ last.arg.fn = "getFF1S"
  /\ \E d \in {getFF1D(last.arg.beta)} :
       last' = Call("getFF1S", "caller", last.arg,
                    [d |-> d, s |-> getFF1S(last.arg.k, last.arg.r, d),
                     encrypts |-> getFF1SInputs(last.arg.r, getFF1SNbrBlocks(d))])
  /\ UNCHANGED <<cbcMode, ctx, src, dst, inplace, panic, hist, want, running>>

NextParts ==
  \/ GetFF1PAt
  \/ GetFF1QAt
  \/ GetFF1SAt
  \/ \E c \in Who : Crypt(c)

SpecParts == InitParts /\ [][NextParts]_vars

\* ------------------------------------------------------- long sources
\* The start of an FF1 CryptBlocks on a src too long to write out: the call
\* is given by the byte length of src, an int of 64 bits, here a magnitude.
\* Lengths are 2 * count + odd for counts h * 2^32 + l on both sides of the
\* limits of the check and of the 32 bits of n.
LowWords ==
  {<<0, 0, 0, 0>>, <<0, 0, 0, 1>>, <<0, 0, 0, 2>>, <<0, 0, 0, 3>>,
   <<0, 0, 0, 100>>, <<0, 1, 0, 0>>, <<127, 255, 255, 255>>, <<128, 0, 0, 0>>,
   <<255, 255, 255, 254>>, <<255, 255, 255, 255>>}

LongCounts == {Strip(<<h>> \o l) : h \in 0..3, l \in LowWords}

InitLen ==
  /\ \E who \in {"FF1Encrypter", "FF1Decrypter"}, count \in LongCounts,
        odd \in {0, 1} :
       last = Call("input", who,
                   [count |-> count, srcLen |-> MagMulAdd(count, 2, odd)], <<>>)
  /\ cbcMode = [block |-> "rot", iv |-> CbcIV, hasSetIV |-> TRUE]
  /\ ctx = [enc |-> Nil, dec |-> Nil]
  /\ src = <<>>
  /\ dst = <<>>
  /\ inplace = TRUE
  /\ running = NoneRunning
  /\ panic = NoPanic
  /\ hist = <<>>
  /\ want = [enc |-> <<>>, dec |-> <<>>]

\* numeralString = BytesToNumeralString(src), of len(src) / 2 numerals;
\* n = uint32(len(numeralString)); the check of n.  ret is [len, n].
CryptBlocksLenCheck ==
  /\ last.op = "input"
  /\ \E len \in {MagDivMod(last.arg.srcLen, 2)[1]} :
       /\ last' = Call("CryptBlocks", last.who, last.arg,
                       [len |-> len, n |-> Uint32(len)])
       /\ panic' = ff1LenCheck(last.who, len)
  /\ UNCHANGED <<cbcMode, ctx, src, dst, inplace, hist, want, running>>

NextLen == CryptBlocksLenCheck

SpecLen == InitLen /\ [][NextLen]_vars

\* -------------------------------------------- transforms in goroutines
\* Two goroutines call CryptBlocks on the FF1 contexts of one pair, which
\* share the CBC helper, each on a buffer of its own.  A goroutine can be
\* preempted between any two calls it makes on the helper: prf's
\* cbcMode.SetIV and prf's cbcMode.CryptBlocks are steps of their own, and
\* what a pass does besides touches only the goroutine's own memory.  A
\* goroutine in progress is [c, x, enc, e, src, dst, pc, k, st, q, cut, cuts]:
\* pc is "setiv" before prf's SetIV, "crypt" between it and prf's CryptBlocks
\* and "done" after the call; k counts the passes made, st is the state of the
\* loop, q the Q of the pass under way; cut tells that another goroutine
\* called the helper since this one's SetIV, cuts holds cut for every pass made.
MaxSwitches == 2
RaceLen == 32

Goroutines == DOMAIN running.procs

\* the pass number of the k-th pass: i counts up in the encrypter's loop and
\* down in the decrypter's
racePass(p) == IF p.enc THEN p.k ELSE p.e.rounds - 1 - p.k

\* CryptBlocks up to its loop
raceBegin(c, x, buf) ==
  [c |-> c, x |-> x, enc |-> IsEncrypter(x),
   e |-> ff1Setup(x, BytesToNumeralString(buf)), src |-> buf, dst |-> buf,
   pc |-> "setiv", k |-> 0,
   st |-> ff1Start(ff1Setup(x, BytesToNumeralString(buf)), cbcMode,
                   BytesToNumeralString(buf)),
   q |-> Ok(<<>>), cut |-> FALSE, cuts |-> <<>>]

\* cbcMode.SetIV(make([]byte, blockSizeFF1))
prfSetIV(cbc) == cbcSetIV(cbc, Zeros(blockSizeFF1))

\* the encryption chained from a zero block whatever the helper holds
prfCryptBlocksFromZero(cbc, x) ==
  prfLastBlock(cbcCryptBlocks(cbcSetIV(cbc, Zeros(blockSizeFF1)), x), Len(x))

\* cbcMode.CryptBlocks(ciphertext, x); return ciphertext[l-blockSizeFF1:]
prfCryptBlocks(cbc, x) == prfLastBlock(cbcCryptBlocks(cbc, x), Len(x))

\* the goroutine after the rest of its pass: the loop goes on, or the call
\* ends with copy(dst, NumeralStringToBytes(numeralString)) or in a panic
raceAfterPass(p, st) ==
  IF st.panic # NoPanic \/ p.k + 1 = p.e.rounds
  THEN [p EXCEPT !.pc = "done", !.k = p.k + 1, !.st = st,
                 !.dst = ff1Finish(p.dst, st).dst,
                 !.cuts = Append(p.cuts, p.cut)]
  ELSE [p EXCEPT !.pc = "setiv", !.k = p.k + 1, !.st = st,
                 !.cuts = Append(p.cuts, p.cut)]

\* the scheduler lets g take the next step
CanStep(g) ==
  IF running.at \in {0, g} THEN TRUE
  ELSE IF running.procs[running.at].pc = "done" THEN TRUE
  ELSE running.switches < MaxSwitches

Stepped(g, procs) ==
  [procs |-> procs, at |-> g,
   switches |-> IF running.at \in {0, g} THEN running.switches
                ELSE IF running.procs[running.at].pc = "done" THEN running.switches
                ELSE running.switches + 1]

\* go ctx[c].CryptBlocks(buf, buf), buf holding RaceLen numerals, as the
\* goroutine after the started ones
Go(c, pat, started) ==
  /\ Len(running.procs) = started
  /\ running.at = 0
  /\ ctx[c] # Nil
  /\ \E buf \in {NumeralStringToBytes(Numerals(pat, RaceLen, ctx[c].radix))} :
       /\ ff1Checks("FF1", ctx[c], buf, buf) = NoPanic
       /\ running' = [running EXCEPT
                        !.procs = Append(running.procs, raceBegin(c, ctx[c], buf))]
  /\ last' = Call("go", c, pat, <<>>)
  /\ UNCHANGED <<cbcMode, ctx, src, dst, inplace, panic, hist, want>>

\* q := getFF1Q(...); prf: cbcMode.SetIV(make([]byte, blockSizeFF1))
PrfSetIV(g) ==
  /\ g \in Goroutines
  /\ running.procs[g].pc = "setiv"
  /\ CanStep(g)
  /\ \E p \in {running.procs[g]} :
       \E q \in {getFF1Q(p.e.tweak, p.e.radix, p.e.beta, racePass(p),
                          View(p.st.val, IF p.enc THEN p.st.b ELSE p.st.a))} :
         IF q.panic # NoPanic
         THEN /\ running' = Stepped(g, [running.procs EXCEPT
                                          ![g].pc = "done", ![g].q = q,
                                          ![g].st.panic = q.panic])
              /\ cbcMode' = cbcMode
         ELSE /\ running' = Stepped(g, [running.procs EXCEPT
                                          ![g].pc = "crypt", ![g].q = q,
                                          ![g].cut = FALSE])
              /\ cbcMode' = prfSetIV(cbcMode)
  /\ last' = Call("SetIV", running.procs[g].c, g, <<>>)
  /\ UNCHANGED <<ctx, src, dst, inplace, panic, hist, want>>

\* prf: cbcMode.CryptBlocks(ciphertext, x), and the rest of the pass
PrfCryptBlocks(g) ==
  /\ g \in Goroutines
  /\ running.procs[g].pc = "crypt"
  /\ CanStep(g)
  /\ \E p \in {running.procs[g]} :
       \E r \in {prfCryptBlocks(cbcMode, p.e.p \o p.q.val)} :
         /\ cbcMode' = r.cbcMode
         /\ running' =
              Stepped(g, [h \in Goroutines |->
                            IF h = g
                            THEN raceAfterPass(p, ff1RoundS(p.e, p.enc, racePass(p),
                                                 [p.st EXCEPT !.cbcMode = cbcMode],
                                                 p.q, r))
                            ELSE IF running.procs[h].pc = "crypt"
                            THEN [running.procs[h] EXCEPT !.cut = TRUE]
                            ELSE running.procs[h]])
  /\ last' = Call("CryptBlocks", running.procs[g].c, g, <<>>)
  /\ UNCHANGED <<ctx, src, dst, inplace, panic, hist, want>>

InitRace ==
  /\ Built("FF1", [block |-> "rot", tweakFF1 |-> <<1, 2, 3>>,
                   tweakFF3 |-> <<1, 2, 3, 250, 251, 252>>], 2)
  /\ src = <<>>
  /\ dst = <<>>
  /\ inplace = TRUE
  /\ running = NoneRunning

NextRace ==
  \/ Go("enc", "ramp", 0)
  \/ \E c \in Who : Go(c, "max", 1)
  \/ \E g \in {1, 2} : PrfSetIV(g)
  \/ \E g \in {1, 2} : PrfCryptBlocks(g)

SpecRace == InitRace /\ [][NextRace]_vars

\* ------------------------------------------------------- unpaired bytes
\* BytesToNumeralString called on its own on byte strings of every length up
\* to MaxLen and on a longer one of odd length, and the transforms of a pair
\* of contexts called with a source and a destination of their own, both of
\* even length or both with one byte more.
OddLens == {7, 8}

ByteStrings ==
  UNION {[1..n -> {0, 1, 255}] : n \in 0..MaxLen} \cup {<<255, 255, 0, 1, 9>>}

InitOdd ==
  /\ \/ /\ \E b \in ByteStrings : last = Call("input", "caller", b, <<>>)
        /\ cbcMode = [block |-> "rot", iv |-> CbcIV, hasSetIV |-> TRUE]
        /\ ctx = [enc |-> Nil, dec |-> Nil]
        /\ panic = NoPanic
        /\ hist = <<>>
        /\ want = [enc |-> <<>>, dec |-> <<>>]
     \/ \E mode \in {"FF1", "FF3"}, r \in {10, 65536}, k \in Keys : Built(mode, k, r)
  /\ src = <<>>
  /\ dst = <<>>
  /\ inplace = TRUE
  /\ running = NoneRunning

\* BytesToNumeralString(bytes)
BytesToNumeralStringAt ==
  /\ last.op = "input"
  /\ last' = Call("BytesToNumeralString", "caller", last.arg,
                  BytesToNumeralString(last.arg))
  /\ UNCHANGED <<cbcMode, ctx, src, dst, inplace, panic, hist, want, running>>

NextOdd ==
  \/ BytesToNumeralStringAt
  \/ \E n \in OddLens, how \in {"fresh", "odd"} : Load(n, "ramp", how)
  \/ \E c \in Who : Crypt(c)

SpecOdd == InitOdd /\ [][NextOdd]_vars

\* ------------------------------------------------------ the round schedule
\* The lengths on both sides of each limit of the schedule, for the radixes
\* whose FF3 maxLength admits them.
ScheduleLens == {9, 10, 13, 14, 19, 20, 31, 32}
ScheduleRadixes == {2, 10}

InitRounds ==
  /\ \E mode \in {"FF1", "FF3"}, r \in ScheduleRadixes :
       Built(mode, [block |-> "mix", tweakFF1 |-> <<1, 2, 3>>,
                    tweakFF3 |-> <<1, 2, 3, 250, 251, 252>>], r)
  /\ src = <<>>
  /\ dst = <<>>
  /\ inplace = TRUE
  /\ running = NoneRunning

NextRounds ==
  \/ \E n \in ScheduleLens : Load(n, "ramp", "inplace")
  \/ \E c \in Who : Crypt(c)

SpecRounds == InitRounds /\ [][NextRounds]_vars

\* ------------------------------------------------------- the range checks
\* The integers strMRadix and getAsBBytes are tried on, around the ends of
\* [0, radix^m): written down byte by byte for the radixes that are powers
\* of 256, and from the machine integer radix^m for the small ones.
MaxM == 4
EdgeRadixes == {2, 10, 256, 65536}
EdgeKinds == {"zero", "max", "pow", "pow1", "far", "neg1", "negmax"}

BytesPerNumeral(r) == IF r = 256 THEN 1 ELSE 2

\* radix^m - 1 and radix^m as magnitudes
EdgeMax(r, m) ==
  IF r \in {256, 65536} THEN [i \in 1..(m * BytesPerNumeral(r)) |-> 255]
  ELSE SmallMag(r ^ m - 1)

EdgePow(r, m) ==
  IF r \in {256, 65536} THEN <<1>> \o Zeros(m * BytesPerNumeral(r))
  ELSE SmallMag(r ^ m)

EdgeValue(kind, r, m) ==
  IF kind = "zero" THEN BigInt(FALSE, <<>>)
  ELSE IF kind = "max" THEN BigInt(FALSE, EdgeMax(r, m))
  ELSE IF kind = "pow" THEN BigInt(FALSE, EdgePow(r, m))
  ELSE IF kind = "pow1"
  THEN BigInt(FALSE, IF r \in {256, 65536}
                     THEN <<1>> \o Zeros(m * BytesPerNumeral(r) - 1) \o <<1>>
                     ELSE SmallMag(r ^ m + 1))
  ELSE IF kind = "far" THEN BigInt(FALSE, EdgePow(r, m + 1))
  ELSE IF kind = "neg1" THEN BigInt(TRUE, <<1>>)
  ELSE BigInt(TRUE, EdgeMax(r, m))

\* The caller holds an integer x and the radix and length (or the byte
\* count b, as radix 256 and length b) it is to be written in.
InitEdge ==
  /\ \E fn \in {"strMRadix", "getAsBBytes"}, r \in EdgeRadixes, m \in 1..MaxM,
        kind \in EdgeKinds :
       /\ fn = "getAsBBytes" => r = 256
       /\ last = Call("input", "caller",
                      [fn |-> fn, radix |-> r, m |-> m, kind |-> kind,
                       x |-> EdgeValue(kind, r, m)], <<>>)
  /\ cbcMode = [block |-> "rot", iv |-> CbcIV, hasSetIV |-> TRUE]
  /\ ctx = [enc |-> Nil, dec |-> Nil]
  /\ src = <<>>
  /\ dst = <<>>
  /\ inplace = TRUE
  /\ running = NoneRunning
  /\ panic = NoPanic
  /\ hist = <<>>
  /\ want = [enc |-> <<>>, dec |-> <<>>]

\* strMRadix(radix, m, x)
StrMRadixAt ==
  /\ last.op = "input"
  /\ last.arg.fn = "strMRadix"
  /\ \E res \in {strMRadix(last.arg.radix, last.arg.m, last.arg.x)} :
       /\ last' = Call("strMRadixAt", "caller", last.arg, res.val)
       /\ panic' = res.panic
  /\ UNCHANGED <<cbcMode, ctx, src, dst, inplace, hist, want, running>>

\* getAsBBytes(x, b)
GetAsBBytesAt ==
  /\ last.op = "input"
  /\ last.arg.fn = "getAsBBytes"
  /\ \E res \in {getAsBBytes(last.arg.x, last.arg.m)} :
       /\ last' = Call("getAsBBytesAt", "caller", last.arg, res.val)
       /\ panic' = res.panic
  /\ UNCHANGED <<cbcMode, ctx, src, dst, inplace, hist, want, running>>

NextEdge ==
  \/ StrMRadixAt
  \/ GetAsBBytesAt

SpecEdge == InitEdge /\ [][NextEdge]_vars

\* ================================================================== claims
Calls == {i \in DOMAIN hist : hist[i].op = "CryptBlocks"}

SameParameters(x, y) ==
  /\ x.aesBlock = y.aesBlock
  /\ x.tweak = y.tweak
  /\ x.radix = y.radix

\* call j decrypts, with a decrypter of kind dk, what call i encrypted with
\* the paired encrypter of kind ek
Decrypts(i, j, ek, dk) ==
  /\ i \in Calls /\ j \in Calls /\ j = i + 1
  /\ hist[i].x.kind = ek /\ hist[j].x.kind = dk
  /\ SameParameters(hist[i].x, hist[j].x)
  /\ hist[i].panic = NoPanic
  /\ hist[j].src = hist[i].dst

\* C1: FF1 round trip.  When an FF1 decrypter, built like the encrypter and
\* sharing its CBC helper, is given what the encrypter wrote for an input that
\* passed validation, it returns and writes that input, for either Block.
C1_FF1RoundTrip ==
  \A i, j \in DOMAIN hist :
    Decrypts(i, j, "ff1Encrypter", "ff1Decrypter")
      => hist[j].panic = NoPanic /\ hist[j].dst = hist[i].src

C1_Witness ==
  \E i, j \in DOMAIN hist :
    /\ Decrypts(i, j, "ff1Encrypter", "ff1Decrypter")
    /\ hist[i].dst # hist[i].src
    /\ hist[i].x.tweak # <<>>
    /\ hist[j].dst = hist[i].src

\* C2: FF3 round trip.  When an FF3 decrypter built like the encrypter is
\* given what the encrypter wrote for an input that passed validation, of
\* even or odd length, it returns and writes that input, for either Block.
C2_FF3RoundTrip ==
  \A i, j \in DOMAIN hist :
    Decrypts(i, j, "ff3Encrypter", "ff3Decrypter")
      => hist[j].panic = NoPanic /\ hist[j].dst = hist[i].src

C2_Witness ==
  \E i, j \in DOMAIN hist :
    /\ Decrypts(i, j, "ff3Encrypter", "ff3Decrypter")
    /\ (Len(hist[i].src) \div 2) % 2 = 1
    /\ hist[i].dst # hist[i].src
    /\ hist[j].dst = hist[i].src

\* C3: format preservation.  A transform that returns leaves in dst as many
\* numerals as src holds, each below the context's radix, and dst keeps its
\* length.
C3_FormatPreserved ==
  \A i \in Calls :
    hist[i].panic = NoPanic =>
      LET out == BytesToNumeralString(hist[i].dst)
      IN  /\ Len(hist[i].dst) = Len(hist[i].dst0)
          /\ Len(out) = Len(hist[i].src) \div 2
          /\ \A k \in DOMAIN out : out[k] < hist[i].x.radix

C3_Witness ==
  \E i \in Calls :
    /\ hist[i].panic = NoPanic
    /\ hist[i].x.radix = 10
    /\ hist[i].dst0 = Filler(Len(hist[i].src))
    /\ hist[i].dst # hist[i].dst0

\* maxlen(r) = 2 * floor(96 / log2(r)), from its definition: floor(96 /
\* log2(r)) is the k with r^k <= 2^96 < r^(k+1)
MaxLenOf(r) ==
  2 * (CHOOSE k \in 0..96 :
         /\ MagCmp(MagExp(r, k), <<1>> \o Zeros(12)) # 1
         /\ MagCmp(MagExp(r, k + 1), <<1>> \o Zeros(12)) = 1)

MaxLenTable == [r \in Radixes |-> MaxLenOf(r)]

\* what the claim says a transform fails on
MustFail(h) ==
  LET n == Len(h.src) \div 2
      r == h.x.radix
  IN  \/ n < 2
      \/ ~IsFF1(h.x) /\ n > MaxLenTable[r]
      \/ Below100(r, n)
      \/ Len(h.dst0) # Len(h.src)
      \/ \E k \in 1..n : h.src[2 * k - 1] * 256 + h.src[2 * k] >= r

C4_SetTweakReplaces ==
  (last.op = "SetTweak" /\ panic = NoPanic) => ctx[last.who].tweak = last.arg

\* C8: no failure inside the rounds.  Whatever setters ran before, a
\* transform fails, if it fails, with one of the per-input messages: never in
\* getAsBBytes, strMRadix or the CBC helper.
RoundPanics ==
  {"strMRadix: x must be in [0..radix^m[.",
   "getAsBBytes: x must be in [0..256^b[.",
   "crypto/cipher: input not full blocks"}

C8_NoFailureInRounds ==
  \A i \in Calls : hist[i].panic \notin RoundPanics

C8_Witness ==
  \E i, j \in DOMAIN hist :
    /\ i < j
    /\ hist[i].op = "SetRadix" /\ hist[i].panic = NoPanic
    /\ hist[i].who = hist[j].who
    /\ j \in Calls /\ IsFF1(hist[j].x)
    /\ hist[j].panic = NoPanic /\ hist[j].dst # hist[j].src

\* what the claim says the FF1 and the FF3 constructors fail on
NewMustFail(a) ==
  IF a.mode = "FF1"
  THEN \/ Len(a.tweak) > 65536
       \/ a.radix < 2 \/ a.radix > 65536
       \/ BlockSize(a.block) # 16
       \/ ~a.hasSetIV
  ELSE \/ Len(a.tweak) # 6
       \/ a.radix < 2 \/ a.radix > 65536
       \/ BlockSize(a.block) # 16

IsNew(op) ==
  op \in {"NewFF1Encrypter", "NewFF1Decrypter", "NewFF3Encrypter", "NewFF3Decrypter"}

\* C5: the FF3 constructors take the README's tweak.  Called with a Block of
\* block size 16, a tweak of 8 bytes and radix 10 they return a mode.
C5_FF3TakesReadmeTweak ==
  ( /\ last.op \in {"NewFF3Encrypter", "NewFF3Decrypter"}
    /\ BlockSize(last.arg.block) = 16
    /\ Len(last.arg.tweak) = 8
    /\ last.arg.radix = 10 )
  => panic = NoPanic

C9_AdapterRoundTrip ==
  /\ last.op = "NumeralStringToBytes" =>
       /\ Len(last.ret) = 2 * Len(last.arg)
       /\ \A i \in DOMAIN last.arg :
            /\ last.ret[2 * i - 1] = last.arg[i] \div 256
            /\ last.ret[2 * i] = last.arg[i] % 256
       /\ BytesToNumeralString(last.ret) = last.arg
  /\ (last.op = "BytesToNumeralString" /\ Len(last.arg) % 2 = 0) =>
       NumeralStringToBytes(last.ret) = last.arg

C9_Witness ==
  /\ last.op = "BytesToNumeralString"
  /\ Len(last.arg) = 2 * MaxLen
  /\ \E i, j \in DOMAIN last.ret : last.ret[i] = 256 /\ last.ret[j] = 65535

\* C10: codec round trip.  strMRadix(r, m, numRadix(X, r)) returns X for X
\* of m numerals below r, and X behind zeros for a longer m: m numerals, most
\* significant first, that numRadix takes back to the value x had when
\* strMRadix was called.
C10_CodecRoundTrip ==
  last.op = "strMRadix" =>
    LET pad == last.arg.m - Len(last.arg.X)
    IN  /\ panic = NoPanic
        /\ last.ret.val = Zeros(pad) \o last.arg.X
        /\ Len(last.ret.val) = last.arg.m
        /\ numRadix(last.ret.val, last.arg.radix) = last.arg.x

C10_Witness ==
  /\ last.op = "strMRadix"
  /\ last.arg.radix = 10
  /\ last.arg.m = MaxLen + 1
  /\ last.arg.X[1] = 9
  /\ last.ret.x # last.arg.x

\* C11: overflow rejection.  strMRadix(r, m, x) panics for x >= r^m and for
\* x < 0, and for x = r^m - 1 returns m numerals that are all r - 1;
\* getAsBBytes(x, b) panics for x >= 256^b and for x < 0, and for
\* x = 256^b - 1 returns b bytes that are all 0xff.
EdgeOutOfRange(kind) == kind \in {"pow", "pow1", "far", "neg1", "negmax"}

C11_OverflowRejection ==
  /\ last.op = "strMRadixAt" =>
       /\ EdgeOutOfRange(last.arg.kind) =>
            panic = "strMRadix: x must be in [0..radix^m[."
       /\ ~EdgeOutOfRange(last.arg.kind) =>
            panic = NoPanic /\ Len(last.ret) = last.arg.m
       /\ last.arg.kind = "max" =>
            last.ret = [i \in 1..last.arg.m |-> last.arg.radix - 1]
  /\ last.op = "getAsBBytesAt" =>
       /\ EdgeOutOfRange(last.arg.kind) =>
            panic = "getAsBBytes: x must be in [0..256^b[."
       /\ ~EdgeOutOfRange(last.arg.kind) =>
            panic = NoPanic /\ Len(last.ret) = last.arg.m
       /\ last.arg.kind = "max" => last.ret = [i \in 1..last.arg.m |-> 255]

C11_Witness ==
  /\ last.op = "getAsBBytesAt"
  /\ last.arg.kind = "pow"
  /\ last.arg.m = MaxM
  /\ panic # NoPanic

\* C12: round schedule.  A transform of n numerals, FF1 or FF3, encryption
\* or decryption, makes R(n) passes of its loop, R = 12 for n >= 32, 18 for
\* 20 <= n < 32, 24 for 14 <= n < 20, 30 for 10 <= n < 14 and 36 for n < 10;
\* an encrypter's passes are i = 0, 1, ..., R - 1 in this order and a
\* decrypter's i = R - 1, ..., 1, 0; R(n) is even.
Schedule(n) ==
  IF n >= 32 THEN 12
  ELSE IF 20 <= n /\ n < 32 THEN 18
  ELSE IF 14 <= n /\ n < 20 THEN 24
  ELSE IF 10 <= n /\ n < 14 THEN 30
  ELSE 36

C12_RoundSchedule ==
  \A k \in Calls :
    hist[k].panic = NoPanic =>
      /\ Len(hist[k].log) = Schedule(Len(hist[k].src) \div 2)
      /\ Len(hist[k].log) % 2 = 0
      /\ \A j \in DOMAIN hist[k].log :
           hist[k].log[j].i = IF IsEncrypter(hist[k].x) THEN j - 1
                              ELSE Len(hist[k].log) - j

C12_Witness ==
  /\ Len(hist) = 2
  /\ hist[1].who = "enc" /\ hist[2].who = "dec"
  /\ IsFF1(hist[1].x)
  /\ Len(hist[2].src) = 2 * 32
  /\ Len(hist[2].log) = 12
  /\ hist[2].log[1].i = 11

\* C13: the IV reset makes FF1 transforms independent of what came before.
\* Whatever IV the shared CBC helper holds when an FF1 CryptBlocks begins
\* (the one it was built with, or the last block an earlier transform left),
\* every pass gets from prf the last block of the CBC encryption of P || Q
\* chained from sixteen zero bytes, and the call's outcome is the one the
\* same context gives on the same buffers with a helper fresh from a zero
\* IV: two calls of the history that agree on context and buffers agree on
\* the result.
FreshHelper(block) == [block |-> block, iv |-> Zeros(blockSizeFF1), hasSetIV |-> TRUE]

LastBlock(c) == SubSeq(c, Len(c) - blockSizeFF1 + 1, Len(c))

C13_HistoryIndependent ==
  \A k \in Calls :
    IsFF1(hist[k].x) =>
      /\ \A j \in DOMAIN hist[k].log :
           hist[k].log[j].r =
             LastBlock(cbcCryptFrom(hist[k].x.aesBlock, Zeros(blockSizeFF1),
                                    hist[k].log[j].p \o hist[k].log[j].q, 0))
      /\ hist[k].dst =
           CryptBlocks(hist[k].x, FreshHelper(hist[k].x.aesBlock),
                       hist[k].dst0, hist[k].src).dst
      /\ \A j \in Calls :
           (/\ hist[j].x = hist[k].x
            /\ hist[j].src = hist[k].src
            /\ hist[j].dst0 = hist[k].dst0)
           => hist[j].dst = hist[k].dst /\ hist[j].panic = hist[k].panic

\* the second of two encryptions of one source buffer into a buffer of its
\* own found the helper as the first left it, and neither with a zero IV
C13_Witness ==
  /\ Len(hist) = 2
  /\ IsFF1(hist[1].x)
  /\ hist[1].x = hist[2].x
  /\ hist[1].src = hist[2].src
  /\ hist[1].panic = NoPanic /\ hist[2].panic = NoPanic
  /\ hist[1].iv0 = CbcIV
  /\ hist[2].iv0 # hist[1].iv0
  /\ hist[2].iv0 # Zeros(blockSizeFF1)
  /\ hist[2].dst = hist[1].dst

\* C14: tweak ownership.  When the caller overwrites the tweak buffers it
\* handed to the constructors and to SetTweak, no context's tweak changes,
\* and every later transform gives what the context as it was before the
\* write gives, unless a setter was called on it in between.
Writes == {k \in DOMAIN hist : hist[k].op = "CallerWrites"}

NoSetterBetween(k, j) ==
  \A l \in (k + 1)..(j - 1) : hist[l].who # hist[j].who

C14_TweakOwnership ==
  \A k \in Writes :
    /\ hist[k].after = hist[k].x
    /\ \A j \in Calls :
         (k < j /\ NoSetterBetween(k, j)) =>
           /\ hist[j].x = hist[k].x[hist[j].who]
           /\ hist[j].dst =
                CryptBlocks(hist[k].x[hist[j].who],
                            FreshHelper(hist[j].x.aesBlock),
                            hist[j].dst0, hist[j].src).dst

\* the caller overwrote the buffer an FF1 SetTweak had returned from, and the
\* encrypter then transformed
C14_Witness ==
  /\ Len(hist) = 3
  /\ hist[1].op = "SetTweak" /\ hist[1].who = "enc" /\ hist[1].panic = NoPanic
  /\ IsFF1(hist[1].x)
  /\ hist[2].op = "CallerWrites"
  /\ hist[2].arg.enc # hist[1].arg
  /\ hist[3].op = "CryptBlocks" /\ hist[3].who = "enc"
  /\ hist[3].panic = NoPanic
  /\ hist[3].dst # hist[3].src

\* C15: split and swap discipline.  With u = floor(n/2) for FF1, ceil(n/2)
\* for FF3, and v = n - u: in every pass i of an encrypter's or a decrypter's
\* loop the two slices are [0, u) and [u, n), one each; the slice written has
\* m numerals and receives m numerals, m = u for even i and v for odd i; no
\* position outside it changes; and when the loop ends a is [0, u) and b is
\* [u, n) again, the output being the numerals of a followed by those of b.
SplitAt(x, n) == IF IsFF1(x) THEN n \div 2 ELSE (n + 1) \div 2

Inside(pos, w) == w.off < pos /\ pos <= w.off + w.len

\* the numeral string as pass j of call h found it
BeforePass(h, j) ==
  IF j = 1 THEN BytesToNumeralString(h.src) ELSE h.log[j - 1].val

SplitKept(h, n, u) ==
  /\ \A j \in DOMAIN h.log :
       /\ {h.log[j].a, h.log[j].b} = {Slice(0, u), Slice(u, n - u)}
       /\ h.log[j].a # h.log[j].b
       /\ h.log[j].wrote = IF IsEncrypter(h.x) THEN h.log[j].a ELSE h.log[j].b
       /\ h.log[j].m = IF h.log[j].i % 2 = 0 THEN u ELSE n - u
       /\ h.log[j].wrote.len = h.log[j].m
       /\ Len(h.log[j].str) = h.log[j].m
       /\ Len(h.log[j].val) = n
       /\ \A pos \in 1..n :
            ~Inside(pos, h.log[j].wrote) =>
              h.log[j].val[pos] = BeforePass(h, j)[pos]
  /\ h.ab = <<Slice(0, u), Slice(u, n - u)>>
  /\ BytesToNumeralString(h.dst) =
       View(h.log[Len(h.log)].val, h.ab[1]) \o View(h.log[Len(h.log)].val, h.ab[2])

C15_SplitAndSwap ==
  \A k \in Calls :
    hist[k].panic = NoPanic =>
      SplitKept(hist[k], Len(hist[k].src) \div 2,
                SplitAt(hist[k].x, Len(hist[k].src) \div 2))

\* an FF1 decryption of thirteen numerals after an encryption
C15_Witness ==
  /\ Len(hist) = 2
  /\ hist[1].op = "CryptBlocks" /\ hist[2].op = "CryptBlocks"
  /\ hist[1].who = "enc" /\ hist[2].who = "dec"
  /\ IsFF1(hist[2].x)
  /\ Len(hist[2].src) = 2 * 13
  /\ hist[2].panic = NoPanic
  /\ hist[2].log[1].wrote = Slice(6, 7)
  /\ hist[2].log[2].wrote = Slice(0, 6)
  /\ hist[2].ab = <<Slice(0, 6), Slice(6, 7)>>

\* C16: the FF1 header P.  getFF1P(radix, u, n, t) is sixteen bytes: 1, 2,
\* 1; the radix in three bytes, most significant first (1, 0, 0 for 2^16);
\* 10; u mod 256; n in four bytes and t in four bytes, most significant
\* first.  Every pass of an FF1 transform uses this P for the transform's
\* radix, u = floor(n/2), n and tweak length.
BigEndian(x, k) == [j \in 1..k |-> (x \div (256 ^ (k - j))) % 256]

HeaderP(radix, u, n, t) ==
  <<1, 2, 1>> \o BigEndian(radix, 3) \o <<10, u % 256>>
    \o BigEndian(n, 4) \o BigEndian(t, 4)

C16_HeaderP ==
  /\ last.op = "getFF1P" =>
       /\ Len(last.ret) = 16
       /\ last.ret = HeaderP(last.arg.radix, last.arg.u, last.arg.n, last.arg.t)
       /\ last.arg.radix = 65536 => SubSeq(last.ret, 4, 6) = <<1, 0, 0>>
  /\ \A k \in Calls :
       \A j \in DOMAIN hist[k].log :
         hist[k].log[j].p =
           HeaderP(hist[k].x.radix, (Len(hist[k].src) \div 2) \div 2,
                   Len(hist[k].src) \div 2, Len(hist[k].x.tweak))

C16_Witness ==
  /\ last.op = "getFF1P"
  /\ last.arg.radix = 65536
  /\ last.arg.u = 1000
  /\ last.arg.n = 16777217
  /\ last.arg.t = 65536
  /\ last.ret = <<1, 2, 1, 1, 0, 0, 10, 232, 1, 0, 0, 1, 0, 1, 0, 0>>

\* C17: the FF1 payload Q.  In pass i, Q is the tweak T, then z zero
\* bytes, then the byte i, then numRadix(M, r) in beta bytes, most
\* significant first and zero-padded on the left, with z the residue of
\* -(t + beta + 1) modulo 16 in [0, 16); M is the slice b in an encrypter and
\* the slice a in a decrypter.  Q has t + z + 1 + beta bytes, and P || Q a
\* positive multiple of 16.
PayloadZeros(t, beta) == (16 - ((t + beta + 1) % 16)) % 16

PayloadQ(T, beta, i, M, r) ==
  T \o Zeros(PayloadZeros(Len(T), beta)) \o <<i>>
    \o Pad(numRadix(M, r).mag, beta)

WholeBlocks(q) == (16 + Len(q)) % 16 = 0 /\ 16 + Len(q) > 0

C17_PayloadQ ==
  /\ (last.op = "getFF1Q" /\ panic = NoPanic) =>
       /\ PayloadZeros(Len(last.arg.tweak), last.arg.b) \in 0..15
       /\ last.ret = PayloadQ(last.arg.tweak, last.arg.b, last.arg.i,
                              last.arg.x, last.arg.radix)
       /\ Len(last.ret) = Len(last.arg.tweak)
                            + PayloadZeros(Len(last.arg.tweak), last.arg.b)
                            + 1 + last.arg.b
       /\ num(SubSeq(last.ret, Len(last.ret) - last.arg.b + 1, Len(last.ret)))
            = numRadix(last.arg.x, last.arg.radix)
       /\ WholeBlocks(last.ret)
  /\ \A k \in Calls :
       \A j \in DOMAIN hist[k].log :
         /\ hist[k].log[j].q =
              PayloadQ(hist[k].x.tweak,
                       getFF1B(Len(hist[k].src) \div 2
                                 - (Len(hist[k].src) \div 2) \div 2,
                               hist[k].x.radix),
                       hist[k].log[j].i,
                       View(BeforePass(hist[k], j),
                            IF IsEncrypter(hist[k].x) THEN hist[k].log[j].b
                            ELSE hist[k].log[j].a),
                       hist[k].x.radix)
         /\ WholeBlocks(hist[k].log[j].q)

\* a call where t + beta + 1 is a multiple of 16 and nothing is padded
C17_Witness ==
  /\ last.op = "getFF1Q"
  /\ panic = NoPanic
  /\ Len(last.arg.tweak) = 15
  /\ last.arg.b = 16
  /\ last.arg.i = 35
  /\ Len(last.ret) = 32
  /\ last.ret[16] = 35

\* C18: the FF1 expansion S.  With d = 4 * ceil(beta / 4) + 4, getFF1S
\* returns the first d bytes of R || E(R xor c_1) || ... || E(R xor c_k),
\* k = ceil(d / 16) - 1, c_j the 16-byte block with j in bytes 0..3, least
\* significant byte first, and zeros after; it encrypts k blocks, none when
\* d <= 16, where S is the first d bytes of R.
CeilDiv(a, b) == IF a % b = 0 THEN a \div b ELSE a \div b + 1

ExpansionD(beta) == 4 * CeilDiv(beta, 4) + 4

CounterBlock(j) ==
  [p \in 1..16 |-> IF p <= 4 THEN (j \div (256 ^ (p - 1))) % 256 ELSE 0]

MaskedBlock(R, j) == [p \in 1..16 |-> XorByte(R[p], CounterBlock(j)[p])]

\* byte p of R || E(R xor c_1) || E(R xor c_2) || ...
ExpansionByte(k, R, p) ==
  IF p <= 16 THEN R[p]
  ELSE Encrypt(k, MaskedBlock(R, (p - 1) \div 16))[((p - 1) % 16) + 1]

ExpansionS(k, R, d) == [p \in 1..d |-> ExpansionByte(k, R, p)]

C18_ExpansionS ==
  /\ last.op = "getFF1S" =>
       /\ last.ret.d = ExpansionD(last.arg.beta)
       /\ Len(last.ret.s) = last.ret.d
       /\ last.ret.s = ExpansionS(last.arg.k, last.arg.r, last.ret.d)
       /\ Len(last.ret.encrypts) = CeilDiv(last.ret.d, 16) - 1
       /\ \A j \in DOMAIN last.ret.encrypts :
            last.ret.encrypts[j] = MaskedBlock(last.arg.r, j)
       /\ last.ret.d <= 16 =>
            /\ last.ret.encrypts = <<>>
            /\ last.ret.s = SubSeq(last.arg.r, 1, last.ret.d)
  /\ \A k \in Calls :
       \A j \in DOMAIN hist[k].log :
         hist[k].log[j].y =
           num(ExpansionS(hist[k].x.aesBlock, hist[k].log[j].r,
                          ExpansionD(getFF1B(Len(hist[k].src) \div 2
                                               - (Len(hist[k].src) \div 2) \div 2,
                                             hist[k].x.radix))))

\* an expansion of 52 bytes, three blocks past R
C18_Witness ==
  /\ last.op = "getFF1S"
  /\ last.arg.beta = 45
  /\ last.ret.d = 52
  /\ Len(last.ret.s) = 52
  /\ Len(last.ret.encrypts) = 3

\* C19: the FF3 round function.  With T_L the first three bytes of the tweak
\* and T_R the last three, pass i uses W = T_R when i is even and T_L when i
\* is odd; P has 16 bytes: W unchanged, then the byte i, then
\* numRadix(rev(M), r) in 12 bytes most significant first, M the slice b in
\* an encrypter and the slice a in a decrypter; y is the number of
\* RevB(E(RevB(P))), E the context's block cipher as it was supplied.
TweakHalf(T, i) == IF i % 2 = 0 THEN SubSeq(T, 4, 6) ELSE SubSeq(T, 1, 3)

RoundP(T, i, M, r) ==
  TweakHalf(T, i) \o <<i>> \o Pad(numRadix(rev(M), r).mag, 12)

FF3Calls == {k \in Calls : ~IsFF1(hist[k].x)}

C19_FF3Round ==
  \A k \in FF3Calls :
    \A j \in DOMAIN hist[k].log :
      /\ hist[k].log[j].w = TweakHalf(hist[k].x.tweak, hist[k].log[j].i)
      /\ Len(hist[k].log[j].p) = 16
      /\ SubSeq(hist[k].log[j].p, 1, 3) = hist[k].log[j].w
      /\ hist[k].log[j].p[4] = hist[k].log[j].i
      /\ hist[k].log[j].p =
           RoundP(hist[k].x.tweak, hist[k].log[j].i,
                  View(BeforePass(hist[k], j),
                       IF IsEncrypter(hist[k].x) THEN hist[k].log[j].b
                       ELSE hist[k].log[j].a),
                  hist[k].x.radix)
      /\ hist[k].log[j].y =
           num(RevB(Encrypt(hist[k].x.aesBlock, RevB(hist[k].log[j].p))))

\* an FF3 decryption of thirteen numerals after an encryption: its first pass
\* is the odd pass 29 and its last the even pass 0
C19_Witness ==
  /\ Len(hist) = 2
  /\ hist[1].op = "CryptBlocks" /\ hist[2].op = "CryptBlocks"
  /\ hist[1].who = "enc" /\ hist[2].who = "dec"
  /\ ~IsFF1(hist[2].x)
  /\ Len(hist[2].src) = 2 * 13
  /\ hist[2].panic = NoPanic
  /\ Len(hist[2].log) = 30
  /\ hist[2].log[1].i = 29
  /\ hist[2].log[1].w = <<1, 2, 3>>
  /\ hist[2].log[30].i = 0
  /\ hist[2].log[30].w = <<250, 251, 252>>
  /\ hist[2].log[30].p[4] = 0

\* C20: BytesToNumeralString returns floor(len / 2) numerals, the pairs of
\* bytes in order, whatever an unpaired last byte holds.  A transform whose
\* src and dst both have 2n + 1 bytes works on the n numerals of the first
\* 2n bytes of src: it writes to the first 2n bytes of dst what it writes
\* for those 2n bytes alone, and leaves the last byte of dst as it was.
OddCalls ==
  {k \in Calls : /\ Len(hist[k].src) % 2 = 1
                 /\ Len(hist[k].dst0) = Len(hist[k].src)}

EvenPart(b) == SubSeq(b, 1, 2 * (Len(b) \div 2))

CbcBefore(h) == [block |-> h.x.aesBlock, iv |-> h.iv0, hasSetIV |-> TRUE]

C20_TrailingByte ==
  /\ last.op = "BytesToNumeralString" =>
       /\ Len(last.ret) = Len(last.arg) \div 2
       /\ \A i \in DOMAIN last.ret :
            last.ret[i] = 256 * last.arg[2 * i - 1] + last.arg[2 * i]
  /\ \A k \in OddCalls :
       /\ hist[k].panic = NoPanic
       /\ hist[k].log # <<>>
       /\ \A j \in DOMAIN hist[k].log :
            Len(hist[k].log[j].val) = Len(hist[k].src) \div 2
       /\ Len(hist[k].dst) = Len(hist[k].src)
       /\ hist[k].dst[Len(hist[k].dst)] = hist[k].dst0[Len(hist[k].dst0)]
       /\ EvenPart(hist[k].dst) =
            CryptBlocks(hist[k].x, CbcBefore(hist[k]), EvenPart(hist[k].dst0),
                        EvenPart(hist[k].src)).dst

\* an FF1 encryption of 15 bytes into 15 bytes
C20_Witness ==
  /\ Len(hist) = 1
  /\ hist[1].op = "CryptBlocks"
  /\ hist[1].who = "enc"
  /\ IsFF1(hist[1].x)
  /\ Len(hist[1].src) = 15
  /\ Len(hist[1].dst0) = 15
  /\ hist[1].src[15] = 85
  /\ hist[1].panic = NoPanic
  /\ hist[1].dst[15] = 170
  /\ SubSeq(hist[1].dst, 1, 14) # SubSeq(hist[1].dst0, 1, 14)

\* C21: two FF1 transforms that share the CBC helper disturb one another.
\* prf's SetIV and prf's CryptBlocks are two steps on the helper's chaining
\* state: a prf whose CryptBlocks finds the zero IV its SetIV left returns the
\* block it returns when run alone, a prf that finds another IV was cut by
\* another goroutine's call on the helper and, the block cipher being a
\* permutation, returns another block; a transform none of whose passes was
\* disturbed writes its serial output.
AloneCbc(x) == [block |-> x.aesBlock, iv |-> CbcIV, hasSetIV |-> TRUE]

PrfAlone(p, j) == prf(AloneCbc(p.x), p.st.log[j].p \o p.st.log[j].q).val

SerialDst(p) == CryptBlocks(p.x, AloneCbc(p.x), p.src, p.src).dst

Disturbed(p) == {j \in DOMAIN p.st.log : p.st.log[j].iv # Zeros(blockSizeFF1)}

\* the goroutine that took the last step, if that step ended a pass, and the
\* pass it ended; every pass of every goroutine is the one just ended in
\* some state
JustPassed == {g \in Goroutines : running.at = g /\ last.op = "CryptBlocks"}

LastPass(p) == {j \in DOMAIN p.st.log : j = Len(p.st.log)}

C21_SharedHelper ==
  \A g \in JustPassed :
    /\ \A j \in LastPass(running.procs[g]) :
         /\ j \notin Disturbed(running.procs[g]) =>
              running.procs[g].st.log[j].r = PrfAlone(running.procs[g], j)
         /\ j \in Disturbed(running.procs[g]) =>
              /\ running.procs[g].cuts[j]
              /\ running.procs[g].x.aesBlock = "rot" =>
                   running.procs[g].st.log[j].r # PrfAlone(running.procs[g], j)
    /\ (running.procs[g].pc = "done" /\ Disturbed(running.procs[g]) = {}) =>
         running.procs[g].dst = SerialDst(running.procs[g])

\* an encryption that ran to its end, one of whose prf calls was cut by the
\* other goroutine and returned another block than alone, and whose output
\* is not its serial output
C21_Witness ==
  /\ Len(running.procs) = 2
  /\ running.procs[1].pc = "done"
  /\ running.procs[1].st.panic = NoPanic
  /\ running.switches = 2
  /\ \E j \in Disturbed(running.procs[1]) :
       /\ running.procs[1].cuts[j]
       /\ running.procs[1].st.log[j].r # PrfAlone(running.procs[1], j)
  /\ running.procs[1].dst # SerialDst(running.procs[1])

\* C22: an FF1 transform fails with the length error for every input whose
\* number of numerals is outside [2, 2^32 - 1], an input of 2^32 + k numerals
\* (k >= 2) included.
CountOutside(count) ==
  MagCmp(count, SmallMag(2)) = -1 \/ MagCmp(count, <<255, 255, 255, 255>>) = 1

C22_LengthErrorOutside ==
  (last.op = "CryptBlocks" /\ CountOutside(last.arg.count)) =>
    panic = last.who \o "/CryptBlocks: src length must be in [2..4294967295]."

\* C23: a failed transform writes nothing.  A CryptBlocks call of an FF1 or
\* FF3 context that panics leaves dst byte for byte as it was, and leaves
\* the tweak and the radix of both contexts as they were.
FailedTransform == last'.op = "CryptBlocks" /\ panic' # NoPanic

C23_FailedWritesNothing ==
  [][FailedTransform =>
       /\ dst' = dst
       /\ \A c \in Who : /\ ctx'[c].tweak = ctx[c].tweak
                          /\ ctx'[c].radix = ctx[c].radix]_vars

\* a call with a destination of its own, one byte short, that panicked and
\* left the destination as the caller had filled it
C23_Witness ==
  /\ last.op = "CryptBlocks"
  /\ panic # NoPanic
  /\ hist # <<>>
  /\ hist[Len(hist)].op = "CryptBlocks"
  /\ hist[Len(hist)].panic = panic
  /\ Len(hist[Len(hist)].dst0) = Len(hist[Len(hist)].src) - 1
  /\ hist[Len(hist)].dst0 = Filler(Len(hist[Len(hist)].src) - 1)
  /\ dst = hist[Len(hist)].dst0

\* C24: the context invariant.  After any calls of SetTweak, SetRadix and
\* CryptBlocks, accepted or rejected, on constructed contexts, the radix is
\* in [2, 2^16] and the tweak has at most 2^16 bytes (FF1) or exactly 6
\* (FF3); a rejected SetTweak or SetRadix leaves tweak and radix as they
\* were, SetRadix never changes the tweak, SetTweak never changes the radix,
\* and CryptBlocks changes neither.
\* the context a call left: the one the next call on it found, or the one
\* held now
LeftBy(k) ==
  IF \E j \in DOMAIN hist : j > k /\ hist[j].who = hist[k].who
  THEN hist[CHOOSE j \in DOMAIN hist :
              /\ j > k
              /\ hist[j].who = hist[k].who
              /\ \A i \in (k + 1)..(j - 1) : hist[i].who # hist[k].who].x
  ELSE ctx[hist[k].who]

WithinBounds(x) ==
  /\ x.radix >= 2
  /\ x.radix <= 65536
  /\ IF IsFF1(x) THEN Len(x.tweak) <= 65536 ELSE Len(x.tweak) = 6

C24_ContextInvariant ==
  /\ \A c \in Who : WithinBounds(ctx[c])
  /\ \A k \in DOMAIN hist :
       /\ WithinBounds(hist[k].x)
       /\ (hist[k].op \in {"SetTweak", "SetRadix"} /\ hist[k].panic # NoPanic) =>
            /\ LeftBy(k).tweak = hist[k].x.tweak
            /\ LeftBy(k).radix = hist[k].x.radix
       /\ hist[k].op = "SetRadix" => LeftBy(k).tweak = hist[k].x.tweak
       /\ hist[k].op = "SetTweak" => LeftBy(k).radix = hist[k].x.radix
       /\ hist[k].op = "CryptBlocks" =>
            /\ LeftBy(k).tweak = hist[k].x.tweak
            /\ LeftBy(k).radix = hist[k].x.radix

\* an FF1 context whose radix an accepted SetRadix(2) changed and a rejected
\* SetRadix(65537) then left alone
C24_Witness ==
  /\ Len(hist) = 2
  /\ IsFF1(hist[1].x)
  /\ hist[1].who = "enc" /\ hist[2].who = "enc"
  /\ hist[1].op = "SetRadix" /\ hist[1].arg = 2 /\ hist[1].panic = NoPanic
  /\ hist[2].op = "SetRadix" /\ hist[2].arg = 65537 /\ hist[2].panic # NoPanic
  /\ hist[1].x.radix = 10
  /\ hist[2].x.radix = 2
  /\ ctx.enc.radix = 2

====
